---- MODULE Spec2Model ----
(***************************************************************************)
(* review-ingestor: one saga step.  IngestService.Handle validates the     *)
(* request, extracts a bearer token once, and for every requested country  *)
(* runs ReviewFetcher.FetchAllReviews (cursor pagination with bounded      *)
(* exponential backoff), saves every returned review through               *)
(* ReviewRepository.SaveRawReview and finally publishes one completion     *)
(* event.  The upstream App Store API, the store's failures, the event bus *)
(* and the cancellation signal are the environment: each of their answers  *)
(* is a nondeterministic choice.                                           *)
(***************************************************************************)
EXTENDS Integers, Sequences, FiniteSets, TLC

(***************************************************************************)
(* Bounds of the model.                                                    *)
(***************************************************************************)
\* longest country list of a request
MaxCountries == 2
\* most raw reviews the upstream hands out during one saga, over all pages
MaxReviews == 2
\* most pages the upstream answers one directly observed FetchAllReviews call with
MaxPages == 2

(***************************************************************************)
(* Program constants.                                                      *)
(***************************************************************************)
\* service.Limit: the maximum total per country the orchestrator passes
Limit == 500
\* page size the orchestrator passes (FetchOptions.Limit)
PageLimit == 20
\* FetchAllReviews: maxRetries
maxRetries == 5
\* FetchAllReviews: initial backoffDelay, in seconds
initialBackoff == 1
\* FetchAllReviews: maxBackoffDelay, in seconds
maxBackoffDelay == 60

(***************************************************************************)
(* Input domains.                                                          *)
(***************************************************************************)
CountryCodes == {"US", "DE"}
RequestIDs == {"", "req1"}
AppIDs == {"", "com.x"}
DateFroms == {"", "2024-01-02"}
SagaIDs == {"s1"}
Tokens == {"tokA"}

\* the raw review records the upstream can return (appstore.Review)
Pool ==
  { [ID |-> "r2", Date |-> "2024-01-02T00:00:00Z"],
    [ID |-> "r3", Date |-> "2024-01-01T00:00:00Z"],
    [ID |-> "r4", Date |-> "03/01/2024"] }

\* the "next" links a page can report (ReviewsResponse.Next)
NextLinks ==
  { "",
    "/v1/catalog/reviews?l=en-GB&offset=20",
    "/v1/catalog/reviews?l=en-GB&cursor=abc" }

Min(a, b) == IF a < b THEN a ELSE b

SeqsUpTo(S, n) == UNION { [1..k -> S] : k \in 0..n }

(***************************************************************************)
(* time.Parse.  A time is the number of days since 2023-12-31; the zero    *)
(* time.Time (year 1), which time.Parse returns with an error, is 0.       *)
(***************************************************************************)
ZeroTime == [ok |-> FALSE, t |-> 0]

\* time.Parse("2006-01-02", s)
ParseDate(s) ==
  CASE s = "2024-01-01" -> [ok |-> TRUE, t |-> 1]
    [] s = "2024-01-02" -> [ok |-> TRUE, t |-> 2]
    [] s = "2024-01-03" -> [ok |-> TRUE, t |-> 3]
    [] OTHER -> ZeroTime

\* time.Parse("2006-01-02T15:04:05Z", s)
ParseTimestamp(s) ==
  CASE s = "2024-01-01T00:00:00Z" -> [ok |-> TRUE, t |-> 1]
    [] s = "2024-01-02T00:00:00Z" -> [ok |-> TRUE, t |-> 2]
    [] s = "2024-01-03T00:00:00Z" -> [ok |-> TRUE, t |-> 3]
    [] OTHER -> ZeroTime

\* mutant: a time is also before itself
BeforeOrEqual(a, b) == a <= b

\* time.Time.Before
Before(a, b) == a < b

\* parseOffsetFromURL: the first "offset=<digits>" of the link
\* mutant: a link without offset parameter parses as offset 0
parseOffsetFromURLOrZero(urlStr) ==
  CASE urlStr = "/v1/catalog/reviews?l=en-GB&offset=20" -> [ok |-> TRUE, v |-> 20]
    [] OTHER -> [ok |-> TRUE, v |-> 0]

parseOffsetFromURL(urlStr) ==
  CASE urlStr = "/v1/catalog/reviews?l=en-GB&offset=20" -> [ok |-> TRUE, v |-> 20]
    [] OTHER -> [ok |-> FALSE, v |-> 0]

(***************************************************************************)
(* State.                                                                  *)
(***************************************************************************)
VARIABLES
  evt,            \* the request Handle received
  sagaID,         \* the saga id Handle received
  pc,             \* where Handle is
  result,         \* what Handle returned: "none" while running, "ok", or the error
  cancelled,      \* ctx.Done() is closed
  totalCount,     \* Handle: totalCount
  ci,             \* Handle: index of the country the range loop is at
  token,          \* ReviewFetcher.token
  opts,           \* FetchAllReviews: opts
  allReviews,     \* FetchAllReviews: allReviews
  fetchedCount,   \* FetchAllReviews: fetchedCount
  currentOffset,  \* FetchAllReviews: currentOffset
  backoffDelay,   \* FetchAllReviews: backoffDelay, in seconds
  currentRetries, \* FetchAllReviews: currentRetries
  reviews,        \* handleReviewsByCountry: reviews
  si,             \* handleReviewsByCountry: index the save loop is at
  successCount,   \* handleReviewsByCountry: successCount
  store,          \* raw_reviews: the rows of the table
  delivered,      \* raw reviews the upstream has handed out so far
  tokenCalls,     \* history: the country of every ExtractToken call
  setTokenCalls,  \* history: number of SetToken calls
  requests,       \* history: the page requests sent, [ci, country, offset, token]
  fetchLog,       \* history: every FetchAllReviews return, [country, err, reviews], one per country
  saveCalls,      \* history: every SaveRawReview call, [ci, row, ok]
  published,      \* history: the completion events written to the bus
  obs             \* history: what the observer of one FetchAllReviews call has recorded

vars ==
  << evt, sagaID, pc, result, cancelled, totalCount, ci, token, opts,
     allReviews, fetchedCount, currentOffset, backoffDelay, currentRetries,
     reviews, si, successCount, store, delivered, tokenCalls,
     setTokenCalls, requests, fetchLog, saveCalls, published,
     obs >>

(***************************************************************************)
(* The record of the observer of one FetchAllReviews call.                 *)
(***************************************************************************)
\* the FetchOptions the call was made with
args == obs.args
\* page requests sent since the last successful page
attempts == obs.attempts
\* the backoff delays slept since the last successful page, in seconds
sleeps == obs.sleeps
\* successful pages that came after rate-limit answers
incidents == obs.incidents
\* the pages received, [offset, Data, Next], in order
pagesSeen == obs.pagesSeen
\* the error of the FetchReviews being handled, << >> if none
respErr == obs.respErr
\* the error FetchAllReviews returned, << >> if none
retErr == obs.retErr

fetchVars ==
  << opts, allReviews, fetchedCount, currentOffset, backoffDelay,
     currentRetries >>

saveVars == << reviews, si, successCount >>

NoOpts ==
  [ Limit |-> 0, Offset |-> 0, After |-> [nil |-> TRUE, t |-> 0], MaxLimit |-> 0,
    Sleep |-> [nil |-> TRUE, d |-> 0] ]

\* no call is observed
NoObservation ==
  obs = [ args |-> NoOpts, attempts |-> 0, sleeps |-> << >>, incidents |-> 0,
          pagesSeen |-> << >>, respErr |-> << >>, retErr |-> << >> ]

Requests ==
  [ RequestID : RequestIDs, AppID : AppIDs,
    Countries : SeqsUpTo(CountryCodes, MaxCountries), DateFrom : DateFroms ]

Init ==
  /\ evt \in Requests
  /\ sagaID \in SagaIDs
  /\ pc = "received"
  /\ result = "none"
  /\ cancelled = FALSE
  /\ totalCount = 0
  /\ ci = 0
  /\ token = ""
  /\ opts = NoOpts
  /\ allReviews = << >>
  /\ fetchedCount = 0
  /\ currentOffset = 0
  /\ backoffDelay = initialBackoff
  /\ currentRetries = 0
  /\ reviews = << >>
  /\ si = 0
  /\ successCount = 0
  /\ store = {}
  /\ delivered = 0
  /\ tokenCalls = << >>
  /\ setTokenCalls = 0
  /\ requests = {}
  /\ fetchLog = << >>
  /\ saveCalls = << >>
  /\ published = << >>
  /\ NoObservation

(***************************************************************************)
(* Helpers of the actions.                                                 *)
(***************************************************************************)
reqVars == << evt, sagaID >>

histVars ==
  << tokenCalls, setTokenCalls, requests, fetchLog, saveCalls, published >>

\* mutant: the range loop of Handle walks the countries from the last one
countryReversed == evt.Countries[Len(evt.Countries) + 1 - ci]

\* the country the range loop of Handle is at
country == evt.Countries[ci]

\* mutant: the app_id check is missing
validateRequestNoAppID(req) ==
  /\ req.RequestID # ""
  /\ Len(req.Countries) # 0

\* IngestService.validateRequest: TRUE when the request is accepted
validateRequest(req) ==
  /\ req.RequestID # ""
  /\ req.AppID # ""
  /\ Len(req.Countries) # 0

(***************************************************************************)
(* Handle: validation.                                                     *)
(***************************************************************************)
Validate ==
  /\ pc = "received"
  /\ IF validateRequest(evt)
       THEN /\ pc' = "token"
            /\ UNCHANGED result
       ELSE /\ pc' = "done"
            /\ result' = "validation_failed"
  /\ UNCHANGED << reqVars, cancelled, totalCount, ci, token, fetchVars,
                  saveVars, store, delivered, histVars >>

(***************************************************************************)
(* TokenExtractor.ExtractToken on the answer of the one GET it issues.     *)
(* A landing response is a transport error or a status with a body; the    *)
(* body is the token tokenx.ExtractBearerToken finds in it, or "none".     *)
(***************************************************************************)
LandingResponses ==
  { [failed |-> TRUE, Status |-> 0, found |-> FALSE, bearer |-> ""] }
    \cup [ failed : {FALSE}, Status : {200, 503}, found : BOOLEAN,
           bearer : Tokens \cup {""} ]

\* mutant: a token that exists is returned also when it is empty
ExtractTokenAllowEmpty(response) ==
  IF response.failed
    THEN [err |-> "extract token failed", token |-> ""]
    ELSE IF response.Status # 200
      THEN [err |-> "unexpected status", token |-> ""]
      ELSE IF response.found
        THEN [err |-> "", token |-> response.bearer]
        ELSE [err |-> "token not found", token |-> ""]

ExtractToken(response) ==
  IF response.failed
    THEN [err |-> "extract token failed", token |-> ""]
    ELSE IF response.Status # 200
      THEN [err |-> "unexpected status", token |-> ""]
      ELSE IF response.found /\ response.bearer # ""
        THEN [err |-> "", token |-> response.bearer]
        ELSE [err |-> "token not found", token |-> ""]

\* mutant: the token is extracted for the last country
tokenCountryLast == evt.Countries[Len(evt.Countries)]

\* Handle: tokenCountry := evt.Countries[0]
tokenCountry == evt.Countries[1]

\* mutant: SetToken is called before the error of ExtractToken is looked at
AcquireTokenSetFirst ==
  /\ pc = "token"
  /\ tokenCalls' = Append(tokenCalls, tokenCountry)
  /\ \E response \in LandingResponses :
       LET got == ExtractToken(response) IN
         /\ token' = got.token
         /\ setTokenCalls' = setTokenCalls + 1
         /\ IF got.err # ""
              THEN /\ result' = "token_extraction_failed"
                   /\ pc' = "done"
                   /\ UNCHANGED ci
              ELSE /\ ci' = 1
                   /\ pc' = "country"
                   /\ UNCHANGED result
  /\ UNCHANGED << reqVars, cancelled, totalCount, fetchVars, saveVars, store,
                  delivered, requests, fetchLog, saveCalls, published >>

\* Handle: ExtractToken, and SetToken when it succeeded, on the answer the
\* landing page gave
AcquireTokenOn(response) ==
  /\ pc = "token"
  /\ tokenCalls' = Append(tokenCalls, tokenCountry)
  /\ LET got == ExtractToken(response) IN
       IF got.err # ""
         THEN /\ result' = "token_extraction_failed"
              /\ pc' = "done"
              /\ UNCHANGED << token, setTokenCalls, ci >>
         ELSE /\ token' = got.token
              /\ setTokenCalls' = setTokenCalls + 1
              /\ ci' = 1
              /\ pc' = "country"
              /\ UNCHANGED result
  /\ UNCHANGED << reqVars, cancelled, totalCount, fetchVars, saveVars, store,
                  delivered, requests, fetchLog, saveCalls, published >>

AcquireToken ==
  /\ pc = "token"
  /\ \E response \in LandingResponses : AcquireTokenOn(response)

(***************************************************************************)
(* Handle: the range loop over evt.Countries, and the start of             *)
(* handleReviewsByCountry and FetchAllReviews for the next country.        *)
(***************************************************************************)
\* mutant: the options FetchAllReviews falls back to for a nil opts, without
\* a maximum
BuildOptsDefault(event, maxLimit) ==
  [ Limit |-> PageLimit,
    Offset |-> 0,
    After |-> [nil |-> FALSE, t |-> ParseDate(event.DateFrom).t],
    MaxLimit |-> 0,
    Sleep |-> [nil |-> TRUE, d |-> 0] ]

\* handleReviewsByCountry: afterDate, _ := time.Parse(...); After: &afterDate
BuildOpts(event, maxLimit) ==
  [ Limit |-> PageLimit,
    Offset |-> 0,
    After |-> [nil |-> FALSE, t |-> ParseDate(event.DateFrom).t],
    MaxLimit |-> maxLimit,
    Sleep |-> [nil |-> TRUE, d |-> 0] ]

StartCountry ==
  /\ pc = "country"
  /\ IF ci > Len(evt.Countries)
       THEN /\ pc' = "publish"
            /\ UNCHANGED fetchVars
       ELSE /\ pc' = "fetch"
            /\ opts' = BuildOpts(evt, Limit)
            /\ allReviews' = << >>
            /\ fetchedCount' = 0
            /\ currentOffset' = opts'.Offset
            /\ backoffDelay' = initialBackoff
            /\ currentRetries' = 0
  /\ UNCHANGED << reqVars, result, cancelled, totalCount, ci, token, saveVars,
                  store, delivered, histVars >>

(***************************************************************************)
(* ReviewFetcher.FetchReviews on the answer of the GET.  An error text is  *)
(* the sequence of its words.                                              *)
(***************************************************************************)
TransportErrors == { << "context deadline exceeded" >>, << "Too Many", "Requests" >> }

Statuses == {"200", "404", "429", "500"}

\* the answers of httpx.Client.DoGET when the upstream may hand out n more reviews
PageResponses(n) ==
  [ failed : {TRUE}, msg : TransportErrors, Status : {""}, json : {FALSE},
    Next : {""}, Data : {<< >>} ]
    \cup [ failed : {FALSE}, msg : {<< >>}, Status : Statuses \ {"200"},
           json : {FALSE}, Next : {""}, Data : {<< >>} ]
    \cup [ failed : {FALSE}, msg : {<< >>}, Status : {"200"}, json : {FALSE},
           Next : {""}, Data : {<< >>} ]
    \cup [ failed : {FALSE}, msg : {<< >>}, Status : {"200"}, json : {TRUE},
           Next : NextLinks, Data : SeqsUpTo(Pool, n) ]

FetchReviews(response, c) ==
  IF response.failed
    THEN [err |-> << "failed to fetch reviews:" >> \o response.msg]
    ELSE IF response.Status = "404"
      THEN [err |-> << "app not found or not available in country", c >>]
      ELSE IF response.Status # "200"
        THEN [err |-> << "unexpected status code:", response.Status >>]
        ELSE IF ~response.json
          THEN [err |-> << "failed to parse JSON response:", "unexpected end of JSON input" >>]
          ELSE [err |-> << >>, Next |-> response.Next, Data |-> response.Data]

\* strings.ToLower, word by word
ToLower(w) ==
  CASE w = "Too Many" -> "too many"
    [] w = "Requests" -> "requests"
    [] w = "US" -> "us"
    [] w = "DE" -> "de"
    [] OTHER -> w

\* strings.Contains(strings.ToLower(err.Error()), sub)
ContainsLower(err, sub) == \E i \in 1..Len(err) : ToLower(err[i]) = sub

\* mutant: every unexpected status is taken for a rate-limit signal
isRateLimitAnyStatus(err) ==
  \/ ContainsLower(err, "429")
  \/ ContainsLower(err, "too many")
  \/ ContainsLower(err, "unexpected status code:")

\* FetchAllReviews: the error is a rate-limit signal
isRateLimit(err) == ContainsLower(err, "429") \/ ContainsLower(err, "too many")

(***************************************************************************)
(* FetchAllReviews returns (all, err) into handleReviewsByCountry, which   *)
(* returns an error into Handle when err is set, and Handle returns it.    *)
(***************************************************************************)
ResetFetch ==
  /\ opts' = NoOpts
  /\ allReviews' = << >>
  /\ fetchedCount' = 0
  /\ currentOffset' = 0
  /\ backoffDelay' = initialBackoff
  /\ currentRetries' = 0

\* mutant: the error of FetchAllReviews is dropped and the partial list is used
FetchReturnIgnoreErr(all, err) ==
  /\ fetchLog' = Append(fetchLog, [country |-> country, err |-> err, reviews |-> all])
  /\ ResetFetch
  /\ reviews' = all
  /\ si' = 1
  /\ successCount' = 0
  /\ pc' = "save"
  /\ UNCHANGED result

\* mutant: a failed country is skipped (continue) instead of failing the saga
FetchReturnSkipCountry(all, err) ==
  /\ fetchLog' = Append(fetchLog, [country |-> country, err |-> err, reviews |-> all])
  /\ ResetFetch
  /\ reviews' = IF err THEN << >> ELSE all
  /\ si' = 1
  /\ successCount' = 0
  /\ pc' = "save"
  /\ UNCHANGED result

\* mutant: the save loop starts at the second review
FetchReturnSkipFirst(all, err) ==
  /\ fetchLog' = Append(fetchLog, [country |-> country, err |-> err, reviews |-> all])
  /\ ResetFetch
  /\ IF err
       THEN /\ result' = "country_processing_failed"
            /\ pc' = "done"
            /\ UNCHANGED saveVars
       ELSE /\ reviews' = all
            /\ si' = 2
            /\ successCount' = 0
            /\ pc' = "save"
            /\ UNCHANGED result

FetchReturn(all, err) ==
  /\ fetchLog' = Append(fetchLog, [country |-> country, err |-> err, reviews |-> all])
  /\ ResetFetch
  /\ IF err
       THEN /\ result' = "country_processing_failed"
            /\ pc' = "done"
            /\ UNCHANGED saveVars
       ELSE /\ reviews' = all
            /\ si' = 1
            /\ successCount' = 0
            /\ pc' = "save"
            /\ UNCHANGED result

\* mutant: case <-ctx.Done(): return nil, ctx.Err()
FetchCancelledDropsReviews ==
  /\ pc = "fetch"
  /\ cancelled
  /\ FetchReturn(<< >>, TRUE)
  /\ UNCHANGED << reqVars, cancelled, totalCount, ci, token, store, delivered,
                  tokenCalls, setTokenCalls, requests, saveCalls, published >>

\* FetchAllReviews: case <-ctx.Done(): return allReviews, ctx.Err()
FetchCancelled ==
  /\ pc = "fetch"
  /\ cancelled
  /\ FetchReturn(allReviews, TRUE)
  /\ UNCHANGED << reqVars, cancelled, totalCount, ci, token, store, delivered,
                  tokenCalls, setTokenCalls, requests, saveCalls, published >>

\* the page request FetchReviews sends
Request ==
  [ci |-> ci, country |-> country, offset |-> currentOffset, token |-> token]

\* mutant: one more retry is allowed
RetriesExhaustedLate(retries) == retries > maxRetries

\* if currentRetries >= maxRetries
RetriesExhausted(retries) == retries >= maxRetries

\* backoffDelay = min(backoffDelay*2, maxBackoffDelay)
NextBackoff(delay) == Min(delay * 2, maxBackoffDelay)

\* FetchAllReviews: a page request answered by a rate-limit signal; the
\* time.Sleep of the retry is inside the step
FetchRateLimited ==
  /\ pc = "fetch"
  /\ ~cancelled
  /\ \E response \in PageResponses(0) :
       LET resp == FetchReviews(response, country) IN
         /\ resp.err # << >>
         /\ isRateLimit(resp.err)
  /\ requests' = requests \cup {Request}
  /\ IF RetriesExhausted(currentRetries)
       THEN FetchReturn(allReviews, TRUE)
       ELSE /\ backoffDelay' = NextBackoff(backoffDelay)
            /\ currentRetries' = currentRetries + 1
            /\ UNCHANGED << opts, allReviews, fetchedCount, currentOffset,
                            fetchLog, result, pc, saveVars >>
  /\ UNCHANGED << reqVars, cancelled, totalCount, ci, token, store, delivered,
                  tokenCalls, setTokenCalls, saveCalls, published >>

\* mutant: the call that used up its retries returns a nil error
BackoffSleepNilOnExhaust(response) ==
  /\ pc = "fetch"
  /\ ~cancelled
  /\ LET resp == FetchReviews(response, country) IN
       /\ resp.err # << >>
       /\ isRateLimit(resp.err)
  /\ requests' = requests \cup {Request}
  /\ IF RetriesExhausted(currentRetries)
       THEN FetchReturn(allReviews, FALSE)
       ELSE /\ pc' = "backoff"
            /\ UNCHANGED << fetchVars, fetchLog, result, saveVars >>
  /\ UNCHANGED << reqVars, cancelled, totalCount, ci, token, store, delivered,
                  tokenCalls, setTokenCalls, saveCalls, published >>

\* the same branch in two steps, for the call that is observed: the request
\* is answered by a rate-limit signal and, unless the retries are used up,
\* the goroutine enters time.Sleep(backoffDelay) ...
BackoffSleep(response) ==
  /\ pc = "fetch"
  /\ ~cancelled
  /\ LET resp == FetchReviews(response, country) IN
       /\ resp.err # << >>
       /\ isRateLimit(resp.err)
  /\ requests' = requests \cup {Request}
  /\ IF RetriesExhausted(currentRetries)
       THEN FetchReturn(allReviews, TRUE)
       ELSE /\ pc' = "backoff"
            /\ UNCHANGED << fetchVars, fetchLog, result, saveVars >>
  /\ UNCHANGED << reqVars, cancelled, totalCount, ci, token, store, delivered,
                  tokenCalls, setTokenCalls, saveCalls, published >>

\* mutant: the retry moves on to the next page
BackoffWakeAdvance ==
  /\ pc = "backoff"
  /\ pc' = "fetch"
  /\ backoffDelay' = NextBackoff(backoffDelay)
  /\ currentRetries' = currentRetries + 1
  /\ currentOffset' = currentOffset + opts.Limit
  /\ UNCHANGED << reqVars, result, cancelled, totalCount, ci, token, opts,
                  allReviews, fetchedCount, saveVars, store,
                  delivered, histVars >>

\* ... and time.Sleep returns, after the whole delay: the delay is doubled,
\* the retry is counted and the loop continues at its head
BackoffWake ==
  /\ pc = "backoff"
  /\ pc' = "fetch"
  /\ backoffDelay' = NextBackoff(backoffDelay)
  /\ currentRetries' = currentRetries + 1
  /\ UNCHANGED << reqVars, result, cancelled, totalCount, ci, token, opts,
                  allReviews, fetchedCount, currentOffset, saveVars, store,
                  delivered, histVars >>

\* FetchAllReviews: a page request answered by any other error
FetchFailedOn(response) ==
  /\ pc = "fetch"
  /\ ~cancelled
  /\ LET resp == FetchReviews(response, country) IN
       /\ resp.err # << >>
       /\ ~isRateLimit(resp.err)
  /\ requests' = requests \cup {Request}
  /\ FetchReturn(allReviews, TRUE)
  /\ UNCHANGED << reqVars, cancelled, totalCount, ci, token, store, delivered,
                  tokenCalls, setTokenCalls, saveCalls, published >>

FetchFailed ==
  /\ pc = "fetch"
  /\ \E response \in PageResponses(0) : FetchFailedOn(response)

(***************************************************************************)
(* FetchAllReviews: the loop over reviewsResp.Data of one successful page. *)
(* acc is [all, count, added, limit]: allReviews, fetchedCount,            *)
(* newReviewsAdded, and whether the MaxLimit return was taken.             *)
(***************************************************************************)
\* mutant: a review whose date does not parse is kept
QualifiesKeepsUnparsed(review, o) ==
  LET reviewDate == ParseTimestamp(review.Attributes.Date) IN
    ~(reviewDate.ok /\ ~o.After.nil /\ Before(reviewDate.t, o.After.t))

\* the review passes the date parse and the After filter
Qualifies(review, o) ==
  LET reviewDate == ParseTimestamp(review.Attributes.Date) IN
    /\ reviewDate.ok
    /\ ~(~o.After.nil /\ Before(reviewDate.t, o.After.t))

\* mutant: the limit is tested with >
LimitReachedLate(count, o) == o.MaxLimit > 0 /\ count > o.MaxLimit

\* if opts.MaxLimit > 0 && fetchedCount >= opts.MaxLimit
LimitReached(count, o) == o.MaxLimit > 0 /\ count >= o.MaxLimit

\* mutant: a qualifying review is put in front of the list
RECURSIVE ScanPagePrepend(_, _, _, _)
ScanPagePrepend(data, i, o, acc) ==
  IF i > Len(data)
    THEN acc
    ELSE IF ~Qualifies(data[i], o)
      THEN ScanPagePrepend(data, i + 1, o, acc)
      ELSE LET kept == [ all |-> << data[i] >> \o acc.all,
                         count |-> acc.count + 1,
                         added |-> TRUE,
                         limit |-> FALSE ]
           IN IF LimitReached(kept.count, o)
                THEN [kept EXCEPT !.limit = TRUE]
                ELSE ScanPagePrepend(data, i + 1, o, kept)

RECURSIVE ScanPage(_, _, _, _)
ScanPage(data, i, o, acc) ==
  IF i > Len(data)
    THEN acc
    ELSE IF ~Qualifies(data[i], o)
      THEN ScanPage(data, i + 1, o, acc)
      ELSE LET kept == [ all |-> Append(acc.all, data[i]),
                         count |-> acc.count + 1,
                         added |-> TRUE,
                         limit |-> FALSE ]
           IN IF LimitReached(kept.count, o)
                THEN [kept EXCEPT !.limit = TRUE]
                ELSE ScanPage(data, i + 1, o, kept)

\* appstore.Review as json.Unmarshal builds it from a raw record
Review(raw) == [ID |-> raw.ID, Attributes |-> [Date |-> raw.Date]]

Decode(data) == [i \in 1..Len(data) |-> Review(data[i])]

\* mutant: a successful page does not clear the failure streak
ResetBackoffNone == UNCHANGED << backoffDelay, currentRetries >>

\* backoffDelay = 1 * time.Second; currentRetries = 0
ResetBackoff ==
  /\ backoffDelay' = initialBackoff
  /\ currentRetries' = 0

\* mutant: the loop goes on after a page without a new review
StopOnEmptyPageNever(o, added) == FALSE

\* if opts.After != nil && !newReviewsAdded { break }
StopOnEmptyPage(o, added) == ~o.After.nil /\ ~added

\* FetchAllReviews: a page request answered by a page.  When the loop goes on
\* and opts.Sleep is set, the goroutine enters time.Sleep(*opts.Sleep).
FetchPageOn(response) ==
  /\ pc = "fetch"
  /\ ~cancelled
  /\ LET resp == FetchReviews(response, country) IN
       /\ resp.err = << >>
       /\ LET acc == ScanPage(Decode(resp.Data), 1, opts,
                              [ all |-> allReviews, count |-> fetchedCount,
                                added |-> FALSE, limit |-> FALSE ])
              nextOffset == parseOffsetFromURL(resp.Next)
          IN /\ delivered' = delivered + Len(resp.Data)
             /\ IF \/ acc.limit
                   \/ resp.Next = ""
                   \/ StopOnEmptyPage(opts, acc.added)
                   \/ ~nextOffset.ok
                  THEN FetchReturn(acc.all, FALSE)
                  ELSE /\ allReviews' = acc.all
                       /\ fetchedCount' = acc.count
                       /\ currentOffset' = nextOffset.v
                       /\ ResetBackoff
                       /\ pc' = IF opts.Sleep.nil THEN "fetch" ELSE "pause"
                       /\ UNCHANGED << opts, fetchLog, result, saveVars >>
  /\ requests' = requests \cup {Request}
  /\ UNCHANGED << reqVars, cancelled, totalCount, ci, token, store,
                  tokenCalls, setTokenCalls, saveCalls, published >>

FetchPage ==
  /\ pc = "fetch"
  /\ \E response \in PageResponses(MaxReviews - delivered) : FetchPageOn(response)

\* time.Sleep(*opts.Sleep) returns, after the whole delay
PauseWake ==
  /\ pc = "pause"
  /\ pc' = "fetch"
  /\ UNCHANGED << reqVars, result, cancelled, totalCount, ci, token, fetchVars,
                  saveVars, store, delivered, histVars >>

(***************************************************************************)
(* handleReviewsByCountry: the save loop.                                  *)
(***************************************************************************)
\* the row SaveRawReview is called with
Row(review, event, c) ==
  [ id |-> review.ID, app_id |-> event.AppID, country |-> c,
    reviewed_at |-> ParseTimestamp(review.Attributes.Date).t ]

\* mutant: the conflict clause is ignored and the row is inserted
SaveRawReviewInsert(rows, row) == rows \cup {row}

\* mutant: ON CONFLICT (id) DO UPDATE, the last write wins
SaveRawReviewUpsert(rows, row) ==
  { r \in rows : r.id # row.id } \cup {row}

\* INSERT ... ON CONFLICT (id) DO NOTHING
SaveRawReview(rows, row) ==
  IF \E r \in rows : r.id = row.id THEN rows ELSE rows \cup {row}

\* mutant: a failed save makes handleReviewsByCountry return an error
SaveReviewAbortOnError ==
  /\ pc = "save"
  /\ si <= Len(reviews)
  /\ IF ~ParseTimestamp(reviews[si].Attributes.Date).ok
       THEN /\ si' = si + 1
            /\ UNCHANGED << store, successCount, saveCalls, pc, result >>
       ELSE \E saved \in BOOLEAN :
              /\ saveCalls' = Append(saveCalls,
                   [ci |-> ci, row |-> Row(reviews[si], evt, country), ok |-> saved])
              /\ IF saved
                   THEN /\ store' = SaveRawReview(store, Row(reviews[si], evt, country))
                        /\ successCount' = successCount + 1
                        /\ si' = si + 1
                        /\ UNCHANGED << pc, result >>
                   ELSE /\ result' = "country_processing_failed"
                        /\ pc' = "done"
                        /\ UNCHANGED << store, successCount, si >>
  /\ UNCHANGED << reqVars, cancelled, totalCount, ci, token,
                  fetchVars, reviews, delivered, tokenCalls, setTokenCalls,
                  requests, fetchLog, published >>

\* mutant: the save loop walks the list from its end
SaveReviewReversed ==
  /\ pc = "save"
  /\ si <= Len(reviews)
  /\ si' = si + 1
  /\ LET review == reviews[Len(reviews) + 1 - si] IN
       IF ~ParseTimestamp(review.Attributes.Date).ok
         THEN UNCHANGED << store, successCount, saveCalls >>
         ELSE \E saved \in BOOLEAN :
                /\ saveCalls' = Append(saveCalls,
                     [ci |-> ci, row |-> Row(review, evt, country), ok |-> saved])
                /\ IF saved
                     THEN /\ store' = SaveRawReview(store, Row(review, evt, country))
                          /\ successCount' = successCount + 1
                     ELSE UNCHANGED << store, successCount >>
  /\ UNCHANGED << reqVars, pc, result, cancelled, totalCount, ci, token,
                  fetchVars, reviews, delivered, tokenCalls, setTokenCalls,
                  requests, fetchLog, published >>

SaveReview ==
  /\ pc = "save"
  /\ si <= Len(reviews)
  /\ si' = si + 1
  /\ IF ~ParseTimestamp(reviews[si].Attributes.Date).ok
       THEN UNCHANGED << store, successCount, saveCalls >>
       ELSE \E saved \in BOOLEAN :
              /\ saveCalls' = Append(saveCalls,
                   [ci |-> ci, row |-> Row(reviews[si], evt, country), ok |-> saved])
              /\ IF saved
                   THEN /\ store' = SaveRawReview(store, Row(reviews[si], evt, country))
                        /\ successCount' = successCount + 1
                   ELSE UNCHANGED << store, successCount >>
  /\ UNCHANGED << reqVars, pc, result, cancelled, totalCount, ci, token,
                  fetchVars, reviews, delivered, tokenCalls, setTokenCalls,
                  requests, fetchLog, published >>

\* mutant: the country's count is the number of saved reviews
CountryCountSaved(fetched, saved) == saved

\* handleReviewsByCountry: return len(reviews), nil
CountryCount(fetched, saved) == Len(fetched)

\* Handle: totalCount += count, and on to the next country
FinishCountry ==
  /\ pc = "save"
  /\ si > Len(reviews)
  /\ totalCount' = totalCount + CountryCount(reviews, successCount)
  /\ ci' = ci + 1
  /\ pc' = "country"
  /\ reviews' = << >>
  /\ si' = 0
  /\ successCount' = 0
  /\ UNCHANGED << reqVars, result, cancelled, token, fetchVars, store,
                  delivered, histVars >>

(***************************************************************************)
(* Handle: the completion event.                                           *)
(***************************************************************************)
\* mutant: the envelope is correlated by the id of the request
BuildEnvelopeByRequestID(event, id) ==
  [ SagaID |-> event.ExtractRequest.RequestID,
    Meta |-> [AppID |-> event.ExtractRequest.AppID], Payload |-> event ]

\* Producer.BuildEnvelope
BuildEnvelope(event, id) ==
  [SagaID |-> id, Meta |-> [AppID |-> event.ExtractRequest.AppID], Payload |-> event]

\* mutant: the error of the publish is logged and Handle returns nil
PublishCompletedSwallowError ==
  /\ pc = "publish"
  /\ pc' = "done"
  /\ LET outputEvent == [ExtractRequest |-> evt, Count |-> totalCount] IN
       \E sent \in BOOLEAN :
         /\ result' = "ok"
         /\ IF sent
              THEN published' = Append(published,
                     [key |-> sagaID, envelope |-> BuildEnvelope(outputEvent, sagaID)])
              ELSE UNCHANGED published
  /\ UNCHANGED << reqVars, cancelled, totalCount, ci, token, fetchVars,
                  saveVars, store, delivered, tokenCalls, setTokenCalls,
                  requests, fetchLog, saveCalls >>

\* mutant: a failed publish is compensated by deleting the saga's rows
PublishCompletedRollback ==
  /\ pc = "publish"
  /\ pc' = "done"
  /\ LET outputEvent == [ExtractRequest |-> evt, Count |-> totalCount] IN
       \E sent \in BOOLEAN :
         IF sent
           THEN /\ published' = Append(published,
                     [key |-> sagaID, envelope |-> BuildEnvelope(outputEvent, sagaID)])
                /\ result' = "ok"
                /\ UNCHANGED store
           ELSE /\ result' = "event_publish_failed"
                /\ store' = {}
                /\ UNCHANGED published
  /\ UNCHANGED << reqVars, cancelled, totalCount, ci, token, fetchVars,
                  saveVars, delivered, tokenCalls, setTokenCalls,
                  requests, fetchLog, saveCalls >>

PublishCompleted ==
  /\ pc = "publish"
  /\ pc' = "done"
  /\ LET outputEvent == [ExtractRequest |-> evt, Count |-> totalCount] IN
       \E sent \in BOOLEAN :
         IF sent
           THEN /\ published' = Append(published,
                     [key |-> sagaID, envelope |-> BuildEnvelope(outputEvent, sagaID)])
                /\ result' = "ok"
           ELSE /\ result' = "event_publish_failed"
                /\ UNCHANGED published
  /\ UNCHANGED << reqVars, cancelled, totalCount, ci, token, fetchVars,
                  saveVars, store, delivered, tokenCalls, setTokenCalls,
                  requests, fetchLog, saveCalls >>

(***************************************************************************)
(* The saga-scoped cancellation signal fires.                              *)
(***************************************************************************)
Cancel ==
  /\ pc # "done"
  /\ ~cancelled
  /\ cancelled' = TRUE
  /\ UNCHANGED << reqVars, pc, result, totalCount, ci, token, fetchVars,
                  saveVars, store, delivered, histVars >>

\* one Handle call; no FetchAllReviews call of it is observed
Next ==
  \/ Validate /\ UNCHANGED obs
  \/ AcquireToken /\ UNCHANGED obs
  \/ StartCountry /\ UNCHANGED obs
  \/ FetchCancelled /\ UNCHANGED obs
  \/ FetchRateLimited /\ UNCHANGED obs
  \/ FetchFailed /\ UNCHANGED obs
  \/ FetchPage /\ UNCHANGED obs
  \/ SaveReview /\ UNCHANGED obs
  \/ FinishCountry /\ UNCHANGED obs
  \/ PublishCompleted /\ UNCHANGED obs
  \/ Cancel /\ UNCHANGED obs

Spec == Init /\ [][Next]_vars

(***************************************************************************)
(* One FetchAllReviews call on its own, from its entry to its return, with *)
(* any FetchOptions a caller may pass.  The call is observed: every        *)
(* request, answer, sleep and the returned error are recorded.  The        *)
(* returned list and whether an error came with it are fetchLog[1]; the    *)
(* save loop of handleReviewsByCountry then consumes the list.             *)
(***************************************************************************)
\* the FetchOptions the observed call is made with
FetchOptionsSet ==
  [ Limit : {PageLimit},
    Offset : {0},
    After : {[nil |-> TRUE, t |-> 0], [nil |-> FALSE, t |-> 2]},
    MaxLimit : {0, 1, 2},
    Sleep : {[nil |-> TRUE, d |-> 0], [nil |-> FALSE, d |-> 1]} ]

InitFetch ==
  /\ evt = [RequestID |-> "req1", AppID |-> "com.x", Countries |-> << "US" >>,
            DateFrom |-> "2024-01-02"]
  /\ sagaID \in SagaIDs
  /\ pc = "fetch"
  /\ result = "none"
  /\ cancelled = FALSE
  /\ totalCount = 0
  /\ ci = 1
  /\ token \in Tokens
  /\ opts \in FetchOptionsSet
  /\ allReviews = << >>
  /\ fetchedCount = 0
  /\ currentOffset = opts.Offset
  /\ backoffDelay = initialBackoff
  /\ currentRetries = 0
  /\ reviews = << >>
  /\ si = 0
  /\ successCount = 0
  /\ store = {}
  /\ delivered = 0
  /\ tokenCalls = << "US" >>
  /\ setTokenCalls = 1
  /\ requests = {}
  /\ fetchLog = << >>
  /\ saveCalls = << >>
  /\ published = << >>
  /\ obs = [ args |-> opts, attempts |-> 0, sleeps |-> << >>, incidents |-> 0,
             pagesSeen |-> << >>, respErr |-> << >>, retErr |-> << >> ]

\* the call returns in this step
Returns == Len(fetchLog') = Len(fetchLog) + 1

\* case <-ctx.Done(): return allReviews, ctx.Err()
CallCancelled ==
  /\ FetchCancelled
  /\ obs' = [obs EXCEPT !.retErr = << "context canceled" >>]

\* a request answered by a rate-limit signal: the retries are used up, or
\* the backoff sleep begins
CallRateLimited ==
  /\ pc = "fetch"
  /\ \E response \in PageResponses(0) :
    /\ BackoffSleep(response)
    /\ obs' = [obs EXCEPT
         !.attempts = @ + 1,
         !.respErr = FetchReviews(response, country).err,
         !.retErr = IF Returns
                      THEN << "maximum retry attempts exceeded:" >>
                             \o FetchReviews(response, country).err
                      ELSE @]

\* the backoff sleep ends: backoffDelay seconds have been slept
CallBackoffWake ==
  /\ BackoffWake
  /\ obs' = [obs EXCEPT !.sleeps = Append(@, backoffDelay), !.respErr = << >>]

\* a request answered by another error
CallFailed ==
  /\ pc = "fetch"
  /\ \E response \in PageResponses(0) :
    /\ FetchFailedOn(response)
    /\ obs' = [obs EXCEPT
         !.attempts = @ + 1,
         !.respErr = FetchReviews(response, country).err,
         !.retErr = FetchReviews(response, country).err]

\* a request answered by a page
CallPage ==
  /\ pc = "fetch"
  /\ Len(pagesSeen) < MaxPages
  /\ \E response \in PageResponses(MaxReviews - delivered) :
       /\ FetchPageOn(response)
       /\ obs' = [obs EXCEPT
            !.pagesSeen = Append(@,
              [ offset |-> currentOffset,
                Data |-> Decode(FetchReviews(response, country).Data),
                Next |-> FetchReviews(response, country).Next ]),
            !.attempts = 0,
            !.sleeps = << >>,
            !.incidents = IF sleeps # << >> THEN @ + 1 ELSE @]

\* the inter-page sleep ends
CallPauseWake == PauseWake /\ UNCHANGED obs

\* the cancellation signal fires while the call runs or sleeps
CallCancel ==
  /\ pc \in {"fetch", "backoff", "pause"}
  /\ Cancel
  /\ UNCHANGED obs

\* handleReviewsByCountry saves the next review of the list the call returned
CallSave == SaveReview /\ UNCHANGED obs

NextFetch ==
  \/ CallCancelled
  \/ CallRateLimited
  \/ CallBackoffWake
  \/ CallFailed
  \/ CallPage
  \/ CallPauseWake
  \/ CallCancel
  \/ CallSave

SpecFetch == InitFetch /\ [][NextFetch]_vars

(***************************************************************************)
(* The same call, not observed, with the goroutine always scheduled: a     *)
(* step of the call that stays possible is eventually taken.  The answers  *)
(* of the upstream and the cancellation signal are under no obligation.    *)
(***************************************************************************)
\* a step of the goroutine running FetchAllReviews
LoopStep ==
  \/ FetchCancelled /\ UNCHANGED obs
  \/ FetchRateLimited /\ UNCHANGED obs
  \/ FetchFailed /\ UNCHANGED obs
  \/ FetchPage /\ UNCHANGED obs
  \/ PauseWake /\ UNCHANGED obs

NextLoop ==
  \/ LoopStep
  \/ CallCancel

SpecLoop == InitFetch /\ [][NextLoop]_vars /\ WF_vars(LoopStep)

(***************************************************************************)
(* One ExtractToken call on its own, for the first country of an accepted  *)
(* request: the GET of the landing page is sent and answered, then the     *)
(* answer is classified and the call returns.  obs holds the GETs sent,    *)
(* the answer and what the call returned.                                  *)
(***************************************************************************)
InitToken ==
  /\ evt \in { r \in Requests : validateRequest(r) }
  /\ sagaID \in SagaIDs
  /\ pc = "token"
  /\ result = "none"
  /\ cancelled = FALSE
  /\ totalCount = 0
  /\ ci = 0
  /\ token = ""
  /\ opts = NoOpts
  /\ allReviews = << >>
  /\ fetchedCount = 0
  /\ currentOffset = 0
  /\ backoffDelay = initialBackoff
  /\ currentRetries = 0
  /\ reviews = << >>
  /\ si = 0
  /\ successCount = 0
  /\ store = {}
  /\ delivered = 0
  /\ tokenCalls = << >>
  /\ setTokenCalls = 0
  /\ requests = {}
  /\ fetchLog = << >>
  /\ saveCalls = << >>
  /\ published = << >>
  /\ obs = [ gets |-> << >>, response |-> << >>, ret |-> << >> ]

\* url := BuildLandingURL(country, appName, appID); t.http.DoGET(ctx, url, nil, nil)
TokenGet ==
  /\ pc = "token"
  /\ pc' = "landed"
  /\ tokenCalls' = Append(tokenCalls, tokenCountry)
  /\ \E response \in LandingResponses :
       obs' = [obs EXCEPT !.gets = Append(@, [country |-> tokenCountry, appID |-> evt.AppID]),
                          !.response = << response >>]
  /\ UNCHANGED << reqVars, result, cancelled, totalCount, ci, token, fetchVars,
                  saveVars, store, delivered, setTokenCalls, requests, fetchLog,
                  saveCalls, published >>

\* the answer is classified and ExtractToken returns
TokenReturn ==
  /\ pc = "landed"
  /\ pc' = "done"
  /\ obs' = [obs EXCEPT !.ret = << ExtractToken(obs.response[1]) >>]
  /\ UNCHANGED << reqVars, result, cancelled, totalCount, ci, token, fetchVars,
                  saveVars, store, delivered, histVars >>

NextToken ==
  \/ TokenGet
  \/ TokenReturn

SpecToken == InitToken /\ [][NextToken]_vars

(***************************************************************************)
(* Two sagas on the one ReviewFetcher the service is built with.  Of each  *)
(* Handle call the steps that touch the token are kept: ExtractToken,      *)
(* SetToken, the page requests (prepareQuery reads r.token for the         *)
(* Authorization header) and the return.  obs.saga[s] is the position of   *)
(* saga s, its local variable token, the number of requests it sent and    *)
(* the error of its ExtractToken.                                          *)
(* r.token is a Go string, written by SetToken without synchronisation: a  *)
(* pointer word and a length word, here token.ptr and token.len.  A read   *)
(* between the two writes of another goroutine sees a torn string.         *)
(***************************************************************************)
Sagas == {1, 2}

\* the credential the landing page hands to saga s
SagaToken(s) == IF s = 1 THEN "tokA" ELSE "tokB"

\* the answers of the landing page to saga s
SagaLanding(s) ==
  { [failed |-> TRUE, Status |-> 0, found |-> FALSE, bearer |-> ""] }
    \cup [ failed : {FALSE}, Status : {200, 503}, found : BOOLEAN,
           bearer : {SagaToken(s), ""} ]

InitSagas ==
  /\ evt = [RequestID |-> "req1", AppID |-> "com.x", Countries |-> << "US" >>,
            DateFrom |-> "2024-01-02"]
  /\ sagaID \in SagaIDs
  /\ pc = "sagas"
  /\ result = "none"
  /\ cancelled = FALSE
  /\ totalCount = 0
  /\ ci = 0
  /\ token = [ptr |-> "", len |-> ""]
  /\ opts = NoOpts
  /\ allReviews = << >>
  /\ fetchedCount = 0
  /\ currentOffset = 0
  /\ backoffDelay = initialBackoff
  /\ currentRetries = 0
  /\ reviews = << >>
  /\ si = 0
  /\ successCount = 0
  /\ store = {}
  /\ delivered = 0
  /\ tokenCalls = << >>
  /\ setTokenCalls = 0
  /\ requests = {}
  /\ fetchLog = << >>
  /\ saveCalls = << >>
  /\ published = << >>
  /\ obs = [ saga |-> [s \in Sagas |-> [pc |-> "idle", tok |-> "", sent |-> 0, err |-> ""]] ]

sagaFrame ==
  << reqVars, pc, result, cancelled, totalCount, ci, fetchVars, saveVars, store,
     delivered, tokenCalls, setTokenCalls, fetchLog, saveCalls, published >>

\* mutant: the consumer hands a message over while a Handle call is running
ConsumerFreeAlways(s) == TRUE

\* KafkaConsumer.Run: Process is called in the loop of the one consumer
\* task, so the next message is read after the call has returned
ConsumerFree(s) ==
  \A o \in Sagas \ {s} : obs.saga[o].pc \in {"idle", "done"}

\* Handle is called for saga s
SagaStart(s, free) ==
  /\ obs.saga[s].pc = "idle"
  /\ free
  /\ obs' = [obs EXCEPT !.saga[s].pc = "token"]
  /\ UNCHANGED << sagaFrame, token, requests >>

\* mutant: the page requests begin without SetToken
SagaExtractNoSet(s) ==
  /\ obs.saga[s].pc = "token"
  /\ \E response \in SagaLanding(s) :
       LET got == ExtractToken(response) IN
         IF got.err # ""
           THEN obs' = [obs EXCEPT !.saga[s].pc = "done", !.saga[s].err = got.err]
           ELSE obs' = [obs EXCEPT !.saga[s].pc = "fetch", !.saga[s].tok = got.token]
  /\ UNCHANGED << sagaFrame, token, requests >>

\* token, err := s.extractor.ExtractToken(...); if err != nil { return }
SagaExtract(s) ==
  /\ obs.saga[s].pc = "token"
  /\ \E response \in SagaLanding(s) :
       LET got == ExtractToken(response) IN
         IF got.err # ""
           THEN obs' = [obs EXCEPT !.saga[s].pc = "done", !.saga[s].err = got.err]
           ELSE obs' = [obs EXCEPT !.saga[s].pc = "set", !.saga[s].tok = got.token]
  /\ UNCHANGED << sagaFrame, token, requests >>

\* SetToken: r.token = token, the first word
SagaSetPtr(s) ==
  /\ obs.saga[s].pc = "set"
  /\ token' = [token EXCEPT !.ptr = obs.saga[s].tok]
  /\ obs' = [obs EXCEPT !.saga[s].pc = "set2"]
  /\ UNCHANGED << sagaFrame, requests >>

\* SetToken: r.token = token, the second word
SagaSetLen(s) ==
  /\ obs.saga[s].pc = "set2"
  /\ token' = [token EXCEPT !.len = obs.saga[s].tok]
  /\ obs' = [obs EXCEPT !.saga[s].pc = "fetch"]
  /\ UNCHANGED << sagaFrame, requests >>

\* mutant: the credential is passed with the call instead of read from the
\* fetcher
AuthorizationOwn(s) == obs.saga[s].tok

\* prepareQuery: "Authorization": r.token
Authorization(s) == IF token.ptr = token.len THEN token.ptr ELSE "torn"

\* another saga has called SetToken
OtherSet(s) ==
  \E o \in Sagas \ {s} :
    obs.saga[o].tok # "" /\ obs.saga[o].pc \in {"set2", "fetch", "done"}

\* FetchReviews: a page request of saga s is sent
SagaRequest(s) ==
  /\ obs.saga[s].pc = "fetch"
  /\ obs.saga[s].sent < MaxPages
  /\ requests' = requests \cup
       { [ saga |-> s, n |-> obs.saga[s].sent + 1, token |-> Authorization(s),
           held |-> token, raced |-> OtherSet(s) ] }
  /\ obs' = [obs EXCEPT !.saga[s].sent = @ + 1]
  /\ UNCHANGED << sagaFrame, token >>

\* Handle returns, after its last page request or on the error of one
SagaReturn(s) ==
  /\ obs.saga[s].pc = "fetch"
  /\ obs' = [obs EXCEPT !.saga[s].pc = "done"]
  /\ UNCHANGED << sagaFrame, token, requests >>

SagaStep(s) ==
  \/ SagaExtract(s)
  \/ SagaSetPtr(s)
  \/ SagaSetLen(s)
  \/ SagaRequest(s)
  \/ SagaReturn(s)

\* the sagas are handled one at a time by the single consumer task
NextSerial ==
  \/ \E s \in Sagas : SagaStart(s, ConsumerFree(s))
  \/ \E s \in Sagas : SagaStep(s)

SpecSerial == InitSagas /\ [][NextSerial]_vars

\* two Handle calls run concurrently on the fetcher
NextShared ==
  \/ \E s \in Sagas : SagaStart(s, TRUE)
  \/ \E s \in Sagas : SagaStep(s)

SpecShared == InitSagas /\ [][NextShared]_vars

(***************************************************************************)
(* logger.Log on its own.  A context maps each correlation key to the      *)
(* value a With function stored under it, or to nothing; the attributes    *)
(* handed to slog are a flat list of keys and values.                      *)
(***************************************************************************)
\* traceIDKey, messageIDKey, reviewIDKey, appIDKey, sagaIDKey, in the order
\* Log looks them up
CorrelationKeys == << "trace_id", "message_id", "review_id", "app_id", "saga_id" >>

\* ctx.Value(key): nothing stored, the empty string, or an id
ContextValues ==
  { [set |-> FALSE, v |-> ""], [set |-> TRUE, v |-> ""], [set |-> TRUE, v |-> "id-1"] }

Contexts == [ { CorrelationKeys[i] : i \in DOMAIN CorrelationKeys } -> ContextValues ]

\* the args of the caller
ArgLists == { << >>, << "key", "value" >>, << "country", "US", "review_id", "r9" >> }

\* mutant: an id that is stored but empty is logged too
CorrelationAttrKeepsEmpty(c, key) ==
  IF c[key].set THEN << key, c[key].v >> ELSE << >>

\* if id, ok := ctx.Value(key).(string); ok && id != "" { attrs = append(attrs, key, id) }
CorrelationAttr(c, key) ==
  IF c[key].set /\ c[key].v # "" THEN << key, c[key].v >> ELSE << >>

\* Log: the attrs passed to logger.Log
Log(c, callerArgs) ==
  CorrelationAttr(c, "trace_id") \o CorrelationAttr(c, "message_id")
    \o CorrelationAttr(c, "review_id") \o CorrelationAttr(c, "app_id")
    \o CorrelationAttr(c, "saga_id") \o callerArgs

InitLog ==
  /\ evt = [RequestID |-> "req1", AppID |-> "com.x", Countries |-> << "US" >>,
            DateFrom |-> "2024-01-02"]
  /\ sagaID \in SagaIDs
  /\ pc = "log"
  /\ result = "none"
  /\ cancelled = FALSE
  /\ totalCount = 0
  /\ ci = 0
  /\ token = ""
  /\ opts = NoOpts
  /\ allReviews = << >>
  /\ fetchedCount = 0
  /\ currentOffset = 0
  /\ backoffDelay = initialBackoff
  /\ currentRetries = 0
  /\ reviews = << >>
  /\ si = 0
  /\ successCount = 0
  /\ store = {}
  /\ delivered = 0
  /\ tokenCalls = << >>
  /\ setTokenCalls = 0
  /\ requests = {}
  /\ fetchLog = << >>
  /\ saveCalls = << >>
  /\ published = << >>
  /\ \E c \in Contexts : \E callerArgs \in ArgLists :
       obs = [ ctx |-> c, args |-> callerArgs, attrs |-> << >> ]

\* one call of Log
LogCall ==
  /\ pc = "log"
  /\ pc' = "logged"
  /\ obs' = [obs EXCEPT !.attrs = Log(obs.ctx, obs.args)]
  /\ UNCHANGED << reqVars, result, cancelled, totalCount, ci, token, fetchVars,
                  saveVars, store, delivered, histVars >>

NextLog == LogCall

SpecLog == InitLog /\ [][NextLog]_vars

(***************************************************************************)
(* The same request handled twice: KafkaConsumer.Run hands the message to  *)
(* the service again after the first Handle call has returned.  The        *)
(* answers the upstream gave to the landing and page requests of the first *)
(* handling are kept, and the second handling gets the same answers in the *)
(* same order; a request beyond the tape is answered freely.  The upstream *)
(* sends no rate-limit signal here: a retried request stores nothing.  The *)
(* table is kept, the logs are those of the handling in progress.          *)
(***************************************************************************)
InitRedeliver ==
  /\ evt = [RequestID |-> "req1", AppID |-> "com.x",
            Countries |-> << "US", "DE" >>, DateFrom |-> "2024-01-02"]
  /\ sagaID \in SagaIDs
  /\ pc = "received"
  /\ result = "none"
  /\ cancelled = FALSE
  /\ totalCount = 0
  /\ ci = 0
  /\ token = ""
  /\ opts = NoOpts
  /\ allReviews = << >>
  /\ fetchedCount = 0
  /\ currentOffset = 0
  /\ backoffDelay = initialBackoff
  /\ currentRetries = 0
  /\ reviews = << >>
  /\ si = 0
  /\ successCount = 0
  /\ store = {}
  /\ delivered = 0
  /\ tokenCalls = << >>
  /\ setTokenCalls = 0
  /\ requests = {}
  /\ fetchLog = << >>
  /\ saveCalls = << >>
  /\ published = << >>
  /\ obs = [ args |-> NoOpts, attempts |-> 0, sleeps |-> << >>, incidents |-> 0,
             pagesSeen |-> << >>, respErr |-> << >>, retErr |-> << >>,
             run |-> 1, tape |-> << >>, pos |-> 0,
             landing |-> << >>,
             first |-> [store |-> {}, result |-> "none", saved |-> TRUE] ]

\* the next page request was answered in the first handling
Recorded == obs.run = 2 /\ obs.pos < Len(obs.tape)

\* the answers the next page request can get
Answers(fresh) == IF Recorded THEN { obs.tape[obs.pos + 1] } ELSE fresh

\* the answer is consumed, and recorded when it is a fresh one
Advance(response) ==
  obs' = [obs EXCEPT !.tape = IF Recorded THEN @ ELSE Append(@, response),
                     !.pos = @ + 1]

\* the landing page answers the second handling as it answered the first
ReplayToken ==
  /\ pc = "token"
  /\ \E response \in (IF obs.run = 2 /\ obs.landing # << >>
                        THEN { obs.landing[1] }
                        ELSE LandingResponses) :
       /\ AcquireTokenOn(response)
       /\ obs' = [obs EXCEPT !.landing = << response >>]

ReplayFailed ==
  /\ pc = "fetch"
  /\ \E response \in Answers(PageResponses(0)) :
       /\ FetchFailedOn(response)
       /\ Advance(response)

ReplayPage ==
  /\ pc = "fetch"
  /\ \E response \in Answers(PageResponses(MaxReviews - delivered)) :
       /\ FetchPageOn(response)
       /\ Advance(response)

\* KafkaConsumer.Run: the message is delivered again, to a Handle call with
\* a context that is not cancelled
Redeliver ==
  /\ pc = "done"
  /\ obs.run = 1
  /\ pc' = "received"
  /\ result' = "none"
  /\ cancelled' = FALSE
  /\ totalCount' = 0
  /\ ci' = 0
  /\ tokenCalls' = << >>
  /\ setTokenCalls' = 0
  /\ requests' = {}
  /\ fetchLog' = << >>
  /\ saveCalls' = << >>
  /\ published' = << >>
  /\ obs' = [obs EXCEPT !.run = 2, !.pos = 0,
                        !.first = [ store |-> store, result |-> result,
                                    saved |-> \A i \in DOMAIN saveCalls : saveCalls[i].ok ]]
  /\ UNCHANGED << reqVars, token, fetchVars, saveVars, store, delivered >>

NextRedeliver ==
  \/ Validate /\ UNCHANGED obs
  \/ ReplayToken
  \/ StartCountry /\ UNCHANGED obs
  \/ FetchCancelled /\ UNCHANGED obs
  \/ ReplayFailed
  \/ ReplayPage
  \/ SaveReview /\ UNCHANGED obs
  \/ FinishCountry /\ UNCHANGED obs
  \/ PublishCompleted /\ UNCHANGED obs
  \/ Cancel /\ UNCHANGED obs
  \/ Redeliver

SpecRedeliver == InitRedeliver /\ [][NextRedeliver]_vars

(***************************************************************************)
(* Properties of one Handle call.                                          *)
(***************************************************************************)
\* the countries whose FetchAllReviews has returned without error
FetchedOK(k) == k \in DOMAIN fetchLog /\ ~fetchLog[k].err

\* C1: the completion event is published at most once, and when it has been
\* published, FetchAllReviews has returned, without error, for every country
\* of the request, in request order.
C1_PublishOnceAfterAllFetches ==
  /\ Len(published) <= 1
  /\ published # << >> =>
       /\ Len(fetchLog) = Len(evt.Countries)
       /\ \A k \in DOMAIN evt.Countries :
            FetchedOK(k) /\ fetchLog[k].country = evt.Countries[k]

C1_Witness ==
  /\ Len(published) = 1
  /\ Len(evt.Countries) = 2
  /\ evt.Countries[1] # evt.Countries[2]
  /\ \E r \in requests : r.ci = 2

\* C2: Handle returns nil exactly when one completion event has been
\* published by the call; while it runs and whenever it returns an error, no
\* completion event has been published.
C2_SuccessIffPublished ==
  /\ result = "ok" <=> Len(published) = 1
  /\ result # "ok" => published = << >>
  /\ pc = "done" <=> result # "none"

C2_Witness ==
  /\ pc = "done"
  /\ result = "ok"
  /\ Len(published) = 1
  /\ store # {}

\* C3: when FetchAllReviews has returned an error for the k-th country, Handle
\* has returned an error: nothing was fetched or saved for a country after the
\* k-th (nor saved for the k-th), and no completion event is published.
C3_FetchErrorAborts ==
  \A k \in DOMAIN fetchLog :
    fetchLog[k].err =>
      /\ pc = "done"
      /\ result = "country_processing_failed"
      /\ Len(fetchLog) = k
      /\ \A r \in requests : r.ci <= k
      /\ \A i \in DOMAIN saveCalls : saveCalls[i].ci < k
      /\ published = << >>

C3_Witness ==
  /\ Len(fetchLog) = 1
  /\ fetchLog[1].err
  /\ Len(evt.Countries) = 2
  /\ result = "country_processing_failed"

\* the SaveRawReview calls made for the k-th country, in call order
SavesOf(k) == SelectSeq(saveCalls, LAMBDA s : s.ci = k)

\* the ids of the reviews the k-th country's FetchAllReviews returned
FetchedIDs(k) == [i \in 1..Len(fetchLog[k].reviews) |-> fetchLog[k].reviews[i].ID]

\* the ids SaveRawReview was called with for the k-th country
SubmittedIDs(k) == [i \in 1..Len(SavesOf(k)) |-> SavesOf(k)[i].row.id]

\* the table after the successful calls of a sequence of SaveRawReview calls
RECURSIVE Replay(_)
Replay(calls) ==
  IF calls = << >>
    THEN {}
    ELSE LET before == Replay(SubSeq(calls, 1, Len(calls) - 1))
             last == calls[Len(calls)]
         IN IF last.ok THEN SaveRawReview(before, last.row) ELSE before

\* C4: when the fetch of the k-th country has failed, every review fetched
\* for the countries before it has been submitted to SaveRawReview, in
\* order, every submitted review whose save succeeded has a row in the store,
\* Handle has returned an error and no completion event is published.
C4_FailureIsolation ==
  \A k \in DOMAIN fetchLog :
    fetchLog[k].err =>
      /\ \A j \in 1..(k - 1) : SubmittedIDs(j) = FetchedIDs(j)
      /\ \A i \in DOMAIN saveCalls :
           saveCalls[i].ok => \E r \in store : r.id = saveCalls[i].row.id
      /\ store = Replay(saveCalls)
      /\ result = "country_processing_failed"
      /\ published = << >>

C4_Witness ==
  /\ Len(fetchLog) = 2
  /\ fetchLog[2].err
  /\ Len(fetchLog[1].reviews) = 2
  /\ Cardinality(store) = 2
  /\ \A r \in store : r.country = evt.Countries[1]

\* a request validateRequest has to reject
Invalid(req) == req.RequestID = "" \/ req.AppID = "" \/ req.Countries = << >>

\* C5: once an invalid request has been looked at, Handle has returned the
\* validation error and has extracted no token, set no token, sent no page
\* request, saved nothing and published nothing.
C5_ValidationNoSideEffects ==
  (pc # "received" /\ Invalid(evt)) =>
    /\ pc = "done"
    /\ result = "validation_failed"
    /\ tokenCalls = << >>
    /\ setTokenCalls = 0
    /\ token = ""
    /\ requests = {}
    /\ fetchLog = << >>
    /\ saveCalls = << >>
    /\ store = {}
    /\ published = << >>

C5_Witness ==
  /\ result = "validation_failed"
  /\ evt.RequestID # ""
  /\ evt.AppID = ""
  /\ evt.Countries # << >>

\* C6: when token extraction has failed, Handle has returned an error without
\* SetToken, without a FetchAllReviews or SaveRawReview call and without a
\* completion event.
C6_TokenFailureAborts ==
  result = "token_extraction_failed" =>
    /\ pc = "done"
    /\ Len(tokenCalls) = 1
    /\ setTokenCalls = 0
    /\ token = ""
    /\ requests = {}
    /\ fetchLog = << >>
    /\ saveCalls = << >>
    /\ published = << >>

C6_Witness ==
  /\ result = "token_extraction_failed"
  /\ Len(evt.Countries) = 2

\* C7: ExtractToken is called at most once, with the first country of the
\* request, and no page request is sent before it was called; later countries
\* and a failed fetch cause no further call.
C7_TokenOnceFirstCountry ==
  /\ Len(tokenCalls) <= 1
  /\ \A i \in DOMAIN tokenCalls : tokenCalls[i] = evt.Countries[1]
  /\ (requests # {} \/ fetchLog # << >>) => Len(tokenCalls) = 1
  /\ pc \in {"country", "fetch", "save", "publish"} => Len(tokenCalls) = 1

C7_Witness ==
  /\ Len(evt.Countries) = 2
  /\ evt.Countries[1] # evt.Countries[2]
  /\ Len(fetchLog) = 2
  /\ fetchLog[2].err
  /\ \E r \in requests : r.ci = 2
  /\ tokenCalls = << evt.Countries[1] >>

\* C8: a failed SaveRawReview aborts nothing: for every country whose fetch
\* returned without error and whose save loop is over, SaveRawReview was
\* called for every fetched review, in order, whatever the calls returned;
\* and Handle returns an error only for a failed validation, token
\* extraction, fetch or publish, so with every fetch and the publish
\* succeeding the event is published.
C8_SaveFailureNeverAborts ==
  /\ \A k \in DOMAIN fetchLog :
       (~fetchLog[k].err /\ (k < ci \/ pc \in {"publish", "done"}))
         => SubmittedIDs(k) = FetchedIDs(k)
  /\ pc = "done" =>
       \/ result = "ok" /\ Len(published) = 1
       \/ result = "validation_failed" /\ Invalid(evt)
       \/ result = "token_extraction_failed" /\ fetchLog = << >>
       \/ result = "country_processing_failed" /\ fetchLog[Len(fetchLog)].err
       \/ /\ result = "event_publish_failed"
          /\ Len(fetchLog) = Len(evt.Countries)
          /\ \A k \in DOMAIN fetchLog : ~fetchLog[k].err

C8_Witness ==
  /\ result = "ok"
  /\ Len(evt.Countries) = 2
  /\ Len(saveCalls) = 2
  /\ ~saveCalls[1].ok
  /\ saveCalls[1].ci = 1
  /\ saveCalls[2].ci = 2
  /\ Len(published) = 1

RECURSIVE SumFetched(_)
SumFetched(log) ==
  IF log = << >>
    THEN 0
    ELSE SumFetched(SubSeq(log, 1, Len(log) - 1)) + Len(log[Len(log)].reviews)

\* C9: the Count of the published completion event is the sum, over the
\* countries of the request, of the number of reviews the country's
\* FetchAllReviews returned, whatever the saves returned; the running total
\* is never negative.
C9_CountIsFetched ==
  /\ totalCount >= 0
  /\ \A i \in DOMAIN published :
       /\ published[i].envelope.Payload.Count = SumFetched(fetchLog)
       /\ published[i].envelope.Payload.Count >= 0
       /\ Len(fetchLog) = Len(evt.Countries)

C9_Witness ==
  /\ Len(published) = 1
  /\ published[1].envelope.Payload.Count = 2
  /\ Len(evt.Countries) = 2
  /\ Len(fetchLog[1].reviews) = 1
  /\ \A i \in DOMAIN saveCalls : ~saveCalls[i].ok
  /\ Len(saveCalls) = 2

\* C10: when the publish has failed, Handle has returned an error and the
\* store holds exactly the rows the successful saves of the call put there.
C10_PublishFailureKeepsRows ==
  result = "event_publish_failed" =>
    /\ pc = "done"
    /\ published = << >>
    /\ store = Replay(saveCalls)
    /\ \A i \in DOMAIN saveCalls :
         saveCalls[i].ok => \E r \in store : r.id = saveCalls[i].row.id

C10_Witness ==
  /\ result = "event_publish_failed"
  /\ Cardinality(store) = 2
  /\ Len(evt.Countries) = 2

\* the k-th country has been processed to the end: its FetchAllReviews has
\* returned without error and every review it returned went through the
\* save loop
CountryDone(k) ==
  /\ FetchedOK(k)
  /\ Len(SavesOf(k)) =
       Len(SelectSeq(fetchLog[k].reviews,
                     LAMBDA r : ParseTimestamp(r.Attributes.Date).ok))

\* C11: countries are processed in request order and one at a time: a page
\* request or a save of the i-th country is for the i-th country code of the
\* request, none exists for a country the loop has not reached, the saves
\* are in country order, no save of a country exists while its pages are
\* being fetched, and every country before the one the loop is at (so
\* before any country that has a page request or a save) has been fetched
\* and saved to the end.
C11_CountriesInOrder ==
  /\ \A r \in requests :
       /\ r.ci \in 1..ci
       /\ r.country = evt.Countries[r.ci]
  /\ \A k \in 1..(ci - 1) : CountryDone(k)
  /\ \A i \in DOMAIN saveCalls :
       /\ saveCalls[i].ci \in 1..ci
       /\ saveCalls[i].row.country = evt.Countries[saveCalls[i].ci]
       /\ FetchedOK(saveCalls[i].ci)
       /\ \A j \in 1..(i - 1) : saveCalls[j].ci <= saveCalls[i].ci
  /\ pc = "fetch" =>
       /\ Len(fetchLog) = ci - 1
       /\ \A i \in DOMAIN saveCalls : saveCalls[i].ci < ci
  /\ \A k \in DOMAIN fetchLog : fetchLog[k].country = evt.Countries[k]

C11_Witness ==
  /\ Len(evt.Countries) = 2
  /\ evt.Countries[1] # evt.Countries[2]
  /\ ci = 2
  /\ pc = "save"
  /\ \E r \in requests : r.ci = 1 /\ r.offset = 20
  /\ \E r \in requests : r.ci = 2
  /\ \E i \in DOMAIN saveCalls : saveCalls[i].ci = 1
  /\ \E i \in DOMAIN saveCalls : saveCalls[i].ci = 2

(***************************************************************************)
(* Properties of one observed FetchAllReviews call (SpecFetch).            *)
(***************************************************************************)
\* the call is in its loop, or asleep in it
Running == pc \in {"fetch", "backoff", "pause"}

\* the call has returned
Returned == fetchLog # << >>

\* the reviews of a received page that pass the date parse and the After
\* filter of the call
QualifyingOf(page) ==
  SelectSeq(page.Data,
            LAMBDA r : /\ ParseTimestamp(r.Attributes.Date).ok
                       /\ (args.After.nil \/
                            ParseTimestamp(r.Attributes.Date).t >= args.After.t))

\* the qualifying reviews of the pages, in page order
RECURSIVE Kept(_)
Kept(pages) ==
  IF pages = << >>
    THEN << >>
    ELSE Kept(SubSeq(pages, 1, Len(pages) - 1)) \o QualifyingOf(pages[Len(pages)])

\* the same, cut at the MaxLimit of the call
Accumulated ==
  LET k == Kept(pagesSeen) IN
    IF args.MaxLimit > 0 /\ Len(k) > args.MaxLimit
      THEN SubSeq(k, 1, args.MaxLimit)
      ELSE k

\* the offset the cursor of the pages received so far points at
CursorAfter(pages) ==
  IF pages = << >>
    THEN args.Offset
    ELSE IF pages[Len(pages)].Next = "/v1/catalog/reviews?l=en-GB&offset=20"
      THEN 20
      ELSE -1

RetriesExceeded ==
  retErr # << >> /\ retErr[1] = "maximum retry attempts exceeded:"

\* C12: at most maxRetries+1 = 6 requests are sent at an offset without a
\* successful page, and the 6th rate-limit answer in a row makes the call
\* return an error; the delay slept before the first retry is 1s, each
\* later one is twice the one before, and none exceeds 60s.
C12_BackoffBounds ==
  /\ attempts <= 6
  /\ Running => attempts <= 5
  /\ Len(sleeps) <= 5
  /\ \A i \in DOMAIN sleeps :
       /\ sleeps[i] <= 60
       /\ sleeps[i] = IF i = 1 THEN 1 ELSE Min(2 * sleeps[i - 1], 60)
  /\ attempts = 6 => Returned /\ fetchLog[1].err
  /\ RetriesExceeded =>
       /\ attempts = 6
       /\ Len(sleeps) = 5
       /\ Returned
       /\ fetchLog[1].err

C12_Witness ==
  /\ RetriesExceeded
  /\ attempts = 6
  /\ sleeps = << 1, 2, 4, 8, 16 >>
  /\ Returned

\* C13: rate-limit answers leave the pagination state alone: in a streak of
\* them the offset is the one the last received page pointed at (the start
\* offset when there is none), the accumulated list and count are what the
\* received pages gave, the options are those of the call, and every
\* request of the call was sent at an offset of this cursor chain.
C13_RateLimitKeepsPagination ==
  (Running /\ (pc = "backoff" \/ sleeps # << >>)) =>
    /\ currentOffset = CursorAfter(pagesSeen)
    /\ allReviews = Accumulated
    /\ fetchedCount = Len(Accumulated)
    /\ opts = args
    /\ \A r \in requests :
         r.offset \in {args.Offset} \cup
                      {CursorAfter(SubSeq(pagesSeen, 1, k)) : k \in DOMAIN pagesSeen}

C13_Witness ==
  /\ pc = "fetch"
  /\ Len(sleeps) = 2
  /\ Len(pagesSeen) = 1
  /\ Len(allReviews) = 1
  /\ currentOffset = 20
  /\ currentRetries = 2

\* C14: the retry budget is per incident: while no request has been sent
\* since the start or the last successful page, the retry counter is 0 and
\* the backoff delay 1s; the counter is the number of retries of the current
\* streak only, and the call ends with "maximum retry attempts exceeded" only
\* on the 6th rate-limit answer in a row, however many incidents came before.
C14_RetryBudgetPerIncident ==
  /\ (Running /\ attempts = 0) => (currentRetries = 0 /\ backoffDelay = 1)
  /\ Running => currentRetries = Len(sleeps)
  /\ incidents <= Len(pagesSeen)
  /\ RetriesExceeded => (Len(sleeps) = 5 /\ attempts = 6)

C14_Witness ==
  /\ pc = "fetch"
  /\ incidents = 2
  /\ Len(sleeps) = 5
  /\ currentRetries = 5
  /\ retErr = << >>

\* the errors FetchReviews returns that carry no rate-limit signal
NotRateLimit(err) ==
  /\ err # << >>
  /\ \/ err[1] = "app not found or not available in country"
     \/ err[1] = "failed to parse JSON response:"
     \/ err = << "unexpected status code:", "500" >>
     \/ err = << "failed to fetch reviews:", "context deadline exceeded" >>

\* C15: once a page request has been answered by an error that is not a
\* rate-limit signal, the call has returned that error with the reviews
\* accumulated so far: it is not asleep and not in its loop.
C15_OtherErrorReturnsAtOnce ==
  NotRateLimit(respErr) =>
    /\ ~Running
    /\ Len(fetchLog) = 1
    /\ fetchLog[1].err
    /\ fetchLog[1].reviews = Accumulated
    /\ retErr = respErr

C15_Witness ==
  /\ respErr = << "unexpected status code:", "500" >>
  /\ Len(pagesSeen) = 1
  /\ Len(fetchLog[1].reviews) = 1
  /\ Len(sleeps) = 2

\* C16: when the cancellation signal is set at the head of the loop, the
\* step of the call is its return: no request is sent, and it returns the
\* accumulated reviews with the cancellation error.
C16_CancelCheckedBeforeRequest ==
  [][ (pc = "fetch" /\ cancelled) =>
        /\ fetchLog' = << [country |-> country, err |-> TRUE, reviews |-> allReviews] >>
        /\ requests' = requests
        /\ attempts' = attempts
        /\ pagesSeen' = pagesSeen
        /\ retErr' = << "context canceled" >>
        /\ pc' \notin {"fetch", "backoff", "pause"} ]_vars

C16_Witness ==
  /\ retErr = << "context canceled" >>
  /\ Returned
  /\ fetchLog[1].err
  /\ Len(fetchLog[1].reviews) = 1
  /\ Len(pagesSeen) = 1

\* C17: the sleeps are cancellable: when the cancellation signal is set
\* while the call sleeps (backoff or inter-page delay), the step of the call
\* is its return, not the end of the whole delay.
C17_SleepsCancellable ==
  [][ (pc \in {"backoff", "pause"} /\ cancelled) =>
        /\ Returns
        /\ sleeps' = sleeps ]_vars

\* every received page has a next cursor and at least one qualifying review
UnboundedUpstream ==
  \A k \in DOMAIN pagesSeen :
    /\ pagesSeen[k].Next = "/v1/catalog/reviews?l=en-GB&offset=20"
    /\ QualifyingOf(pagesSeen[k]) # << >>

\* C18: with a positive MaxLimit N the accumulated count never exceeds N; a
\* call that returns without error returns at most N reviews, and when every
\* page it received had a next cursor and a qualifying review, it returns
\* exactly the first N qualifying reviews, and the pages before the last
\* received one held fewer than N.
C18_LimitShortCircuit ==
  args.MaxLimit > 0 =>
    /\ fetchedCount <= args.MaxLimit
    /\ Len(allReviews) <= args.MaxLimit
    /\ (Returned /\ ~fetchLog[1].err) =>
         /\ Len(fetchLog[1].reviews) <= args.MaxLimit
         /\ fetchLog[1].reviews = Accumulated
         /\ UnboundedUpstream =>
              /\ Len(fetchLog[1].reviews) = args.MaxLimit
              /\ Len(Kept(SubSeq(pagesSeen, 1, Len(pagesSeen) - 1))) < args.MaxLimit

C18_Witness ==
  /\ args.MaxLimit = 2
  /\ Returned
  /\ ~fetchLog[1].err
  /\ UnboundedUpstream
  /\ Len(pagesSeen) = 2
  /\ Len(fetchLog[1].reviews) = 2

\* C19: without date filter and limit, once a page without next cursor has
\* been received the call has returned, with no error, the qualifying
\* reviews of all received pages in page order; every page was requested
\* at the offset the page before pointed at, and only the last page is
\* without next cursor.
C19_CursorTermination ==
  (args.After.nil /\ args.MaxLimit = 0 /\ pagesSeen # << >>
     /\ pagesSeen[Len(pagesSeen)].Next = "") =>
    /\ ~Running
    /\ Len(fetchLog) = 1
    /\ ~fetchLog[1].err
    /\ retErr = << >>
    /\ fetchLog[1].reviews = Kept(pagesSeen)
    /\ \A k \in DOMAIN pagesSeen :
         /\ pagesSeen[k].offset = CursorAfter(SubSeq(pagesSeen, 1, k - 1))
         /\ k < Len(pagesSeen) => pagesSeen[k].Next # ""

C19_Witness ==
  /\ args.After.nil
  /\ args.MaxLimit = 0
  /\ Len(pagesSeen) = 2
  /\ pagesSeen[2].Next = ""
  /\ pagesSeen[2].offset = 20
  /\ Len(fetchLog[1].reviews) = 2
  /\ fetchLog[1].reviews[1].ID # fetchLog[1].reviews[2].ID
  /\ QualifyingOf(pagesSeen[1]) # << >>
  /\ QualifyingOf(pagesSeen[2]) # << >>

\* C20: with After set, a received page without a qualifying review is the
\* last page of the call: the call has returned, without error, what it had
\* accumulated, whatever next cursor the page reported.
C20_DateFilterStop ==
  ~args.After.nil =>
    \A k \in DOMAIN pagesSeen :
      QualifyingOf(pagesSeen[k]) = << >> =>
        /\ k = Len(pagesSeen)
        /\ ~Running
        /\ Len(fetchLog) = 1
        /\ ~fetchLog[1].err
        /\ fetchLog[1].reviews = Kept(pagesSeen)

C20_Witness ==
  /\ ~args.After.nil
  /\ args.MaxLimit = 0
  /\ Len(pagesSeen) = 2
  /\ QualifyingOf(pagesSeen[1]) # << >>
  /\ pagesSeen[2].Data # << >>
  /\ QualifyingOf(pagesSeen[2]) = << >>
  /\ pagesSeen[2].Next = "/v1/catalog/reviews?l=en-GB&offset=20"
  /\ Returned

(***************************************************************************)
(* Termination of the loop of FetchAllReviews (SpecLoop).                  *)
(***************************************************************************)
\* C21: the pagination/backoff loop terminates: whatever the upstream
\* answers and whatever the options, the call eventually returns.
C21_LoopTerminates == <>(pc \notin {"fetch", "backoff", "pause"})

(***************************************************************************)
(* The date filter Handle passes (Spec).                                   *)
(***************************************************************************)
\* C22: when the DateFrom of the request is absent or does not parse, the
\* fetch of a country runs without date filter: After is unset, no review
\* with a parseable date is skipped, and a page that added no review does
\* not stop the fetch.
C22_NoDateMeansNoFilter ==
  (pc = "fetch" /\ ~ParseDate(evt.DateFrom).ok) =>
    /\ opts.After.nil
    /\ \A raw \in Pool :
         ParseTimestamp(raw.Date).ok => Qualifies(Review(raw), opts)
    /\ ~StopOnEmptyPage(opts, FALSE)

(***************************************************************************)
(* Dates of the reviews of one observed call and its save loop (SpecFetch).*)
(***************************************************************************)
\* the date string of the review does not parse
Unparseable(review) == ~ParseTimestamp(review.Attributes.Date).ok

\* the ids of the received reviews whose date does not parse
UnparseableIDs ==
  UNION { { pagesSeen[k].Data[i].ID :
              i \in { j \in DOMAIN pagesSeen[k].Data : Unparseable(pagesSeen[k].Data[j]) } } :
          k \in DOMAIN pagesSeen }

\* C23: a review whose date does not parse is dropped and nothing fails: it
\* is not in the accumulated or returned list, not counted, not saved; the
\* returned list is still every other qualifying review of the received
\* pages, the save loop goes through all of them, and the only errors the
\* call returns are cancellation, used-up retries and the error of a
\* failed page request.
C23_UnparseableDateDropped ==
  /\ \A i \in DOMAIN allReviews : ~Unparseable(allReviews[i])
  /\ Running => fetchedCount = Len(Accumulated)
  /\ \A k \in DOMAIN fetchLog :
       /\ fetchLog[k].reviews = Accumulated
       /\ \A i \in DOMAIN fetchLog[k].reviews : ~Unparseable(fetchLog[k].reviews[i])
  /\ \A i \in DOMAIN saveCalls : saveCalls[i].row.id \notin UnparseableIDs
  /\ pc = "save" =>
       /\ Len(saveCalls) = si - 1
       /\ si <= Len(fetchLog[1].reviews) + 1
       /\ CountryCount(reviews, successCount) = Len(Accumulated)
  /\ retErr # << >> =>
       \/ retErr = << "context canceled" >>
       \/ retErr[1] = "maximum retry attempts exceeded:"
       \/ retErr = respErr

C23_Witness ==
  /\ Len(pagesSeen) = 1
  /\ Len(pagesSeen[1].Data) = 2
  /\ Unparseable(pagesSeen[1].Data[1])
  /\ ~Unparseable(pagesSeen[1].Data[2])
  /\ UnparseableIDs # {}
  /\ Len(fetchLog) = 1
  /\ Len(fetchLog[1].reviews) = 1
  /\ retErr = << >>
  /\ pc = "save"
  /\ si = 2
  /\ Len(saveCalls) = 1
  /\ saveCalls[1].ok

\* C24: with After set, every review of a returned list, also of one
\* returned with an error, has a date that parses and is not before After;
\* every received review dated exactly After is in the list unless MaxLimit
\* cut it; skipped reviews do not count: the list is the qualifying reviews
\* received, cut at MaxLimit, and the count is its length.
C24_AfterFilter ==
  ~args.After.nil =>
    /\ \A i \in DOMAIN allReviews :
         /\ ParseTimestamp(allReviews[i].Attributes.Date).ok
         /\ ParseTimestamp(allReviews[i].Attributes.Date).t >= args.After.t
    /\ Running => fetchedCount = Len(allReviews)
    /\ \A k \in DOMAIN fetchLog :
         LET list == fetchLog[k].reviews IN
           /\ \A i \in DOMAIN list :
                /\ ParseTimestamp(list[i].Attributes.Date).ok
                /\ ParseTimestamp(list[i].Attributes.Date).t >= args.After.t
           /\ args.MaxLimit = 0 =>
                \A p \in DOMAIN pagesSeen : \A j \in DOMAIN pagesSeen[p].Data :
                  LET d == ParseTimestamp(pagesSeen[p].Data[j].Attributes.Date) IN
                    (d.ok /\ d.t = args.After.t) =>
                      \E i \in DOMAIN list : list[i] = pagesSeen[p].Data[j]
           /\ Len(list) = IF args.MaxLimit > 0
                            THEN Min(args.MaxLimit, Len(Kept(pagesSeen)))
                            ELSE Len(Kept(pagesSeen))

C24_Witness ==
  /\ ~args.After.nil
  /\ args.MaxLimit = 1
  /\ Len(pagesSeen) = 1
  /\ Len(pagesSeen[1].Data) = 2
  /\ ParseTimestamp(pagesSeen[1].Data[1].Attributes.Date).ok
  /\ ParseTimestamp(pagesSeen[1].Data[1].Attributes.Date).t < args.After.t
  /\ ParseTimestamp(pagesSeen[1].Data[2].Attributes.Date).t = args.After.t
  /\ Len(fetchLog) = 1
  /\ fetchLog[1].reviews = << pagesSeen[1].Data[2] >>
  /\ ~fetchLog[1].err

(***************************************************************************)
(* The raw_reviews table.                                                  *)
(***************************************************************************)
\* the successful SaveRawReview calls that found no row with their id
FirstSaves ==
  { i \in DOMAIN saveCalls :
      /\ saveCalls[i].ok
      /\ \A j \in 1..(i - 1) :
           ~(saveCalls[j].ok /\ saveCalls[j].row.id = saveCalls[i].row.id) }

\* C25: after any sequence of SaveRawReview calls the table has at most one
\* row per id, and a successful call with an id that is present adds no row
\* and changes none: the table is the rows of the first successful call of
\* each id.
C25_IdempotentSave ==
  /\ \A a \in store : \A b \in store : a.id = b.id => a = b
  /\ store = { saveCalls[i].row : i \in FirstSaves }
  /\ Cardinality(store) = Cardinality(FirstSaves)

C25_Witness ==
  \E i \in DOMAIN saveCalls : \E j \in DOMAIN saveCalls :
    /\ i < j
    /\ saveCalls[i].ok
    /\ saveCalls[j].ok
    /\ saveCalls[i].row.id = saveCalls[j].row.id
    /\ saveCalls[i].row # saveCalls[j].row
    /\ saveCalls[i].row \in store
    /\ Cardinality(store) = 1

(***************************************************************************)
(* The table across two handlings of one request (SpecRedeliver).          *)
(***************************************************************************)
\* the first handling fetched every country: it returned nil, or the error
\* of the publish
FirstComplete == obs.first.result \in {"ok", "event_publish_failed"}

C27_SaveOrderIsFetchOrder ==
  /\ \A k \in DOMAIN fetchLog : fetchLog[k].reviews = Accumulated
  /\ saveCalls # << >> =>
       /\ Len(fetchLog) = 1
       /\ Len(saveCalls) <= Len(fetchLog[1].reviews)
       /\ \A i \in DOMAIN saveCalls :
            saveCalls[i].row.id = fetchLog[1].reviews[i].ID

C27_Witness ==
  /\ Len(pagesSeen) = 2
  /\ Len(pagesSeen[1].Data) = 1
  /\ Len(pagesSeen[2].Data) = 1
  /\ pagesSeen[1].Data[1].ID # pagesSeen[2].Data[1].ID
  /\ Len(saveCalls) = 2
  /\ saveCalls[1].row.id = pagesSeen[1].Data[1].ID
  /\ saveCalls[2].row.id = pagesSeen[2].Data[1].ID

(***************************************************************************)
(* The phases of one Handle call.  Received is pc = "received", Validated  *)
(* is "token", TokenAcquired and PerCountry are "country", "fetch" and     *)
(* "save" with ci the country, Aggregated is "publish"; Published, Done    *)
(* and Failed are "done" with the result telling them apart.               *)
(***************************************************************************)
PhaseOrder ==
  { << "received", "token" >>, << "received", "done" >>,
    << "token", "country" >>, << "token", "done" >>,
    << "country", "fetch" >>, << "country", "publish" >>,
    << "fetch", "fetch" >>, << "fetch", "save" >>, << "fetch", "done" >>,
    << "save", "save" >>, << "save", "country" >>,
    << "publish", "done" >> }

\* the step is a step of Handle (not the cancellation signal) in which a
\* call failed: the validation, ExtractToken, FetchAllReviews or the publish
StepFails ==
  \/ pc = "received" /\ pc' # pc /\ ~validateRequest(evt)
  \/ Len(tokenCalls') > Len(tokenCalls) /\ setTokenCalls' = setTokenCalls
  \/ Len(fetchLog') > Len(fetchLog) /\ fetchLog'[Len(fetchLog')].err
  \/ pc = "publish" /\ pc' # pc /\ published' = published

\* C28: a step of Handle moves along the phase order only, the countries
\* are entered one after the other, and a failed step ends the call: Handle
\* returns the error in that step, and after Handle has returned there is no
\* token extraction, page request, save or publish.
C28_PhasesInOrder ==
  [][ /\ pc # "done"
      /\ pc' = pc \/ << pc, pc' >> \in PhaseOrder
      /\ ci' = ci \/ (ci' = ci + 1 /\ pc \in {"token", "save"})
      /\ ci' <= Len(evt.Countries) + 1
      /\ StepFails =>
           /\ pc' = "done"
           /\ result' \notin {"none", "ok"}
           /\ UNCHANGED << store, saveCalls, published >>
      /\ (pc' = "done") = (result' # "none")
      /\ result' = "ok" => (pc = "publish" /\ Len(published') = Len(published) + 1)
    ]_vars

C28_Witness ==
  /\ pc = "done"
  /\ result = "country_processing_failed"
  /\ ci = 2
  /\ Len(fetchLog) = 2
  /\ ~fetchLog[1].err
  /\ fetchLog[2].err
  /\ saveCalls # << >>
  /\ published = << >>

\* C29: Handle never changes the request or the saga id it received, and a
\* published completion event has the request and the total count as its
\* payload, the saga id as the correlation id of its envelope and the saga
\* id as its routing key.
C29_CompletionEvent ==
  [][ /\ UNCHANGED << evt, sagaID >>
      /\ \A i \in DOMAIN published' :
           /\ published'[i].envelope.Payload.ExtractRequest = evt
           /\ published'[i].envelope.Payload.Count = totalCount
           /\ published'[i].envelope.SagaID = sagaID
           /\ published'[i].key = sagaID
    ]_vars

C29_Witness ==
  /\ Len(published) = 1
  /\ published[1].key = sagaID
  /\ published[1].envelope.SagaID = sagaID
  /\ published[1].envelope.Payload.ExtractRequest = evt
  /\ published[1].envelope.Payload.Count = totalCount
  /\ totalCount = 1
  /\ sagaID # evt.RequestID

(***************************************************************************)
(* ExtractToken (SpecToken).                                               *)
(***************************************************************************)
\* the answer carries a token that is not empty
HasToken(response) ==
  ~response.failed /\ response.Status = 200 /\ response.found /\ response.bearer # ""

\* C30: ExtractToken sends one GET and no other; a transport error or a
\* status other than 200 gives an error that is not "token not found", a 200
\* answer without a token or with an empty one gives "token not found", and
\* a token is returned, without error, exactly for a 200 answer with a token
\* that is not empty.
C30_ExtractTokenOutcomes ==
  /\ Len(obs.gets) = (IF pc = "token" THEN 0 ELSE 1)
  /\ obs.ret # << >> =>
       LET response == obs.response[1]
           got == obs.ret[1]
       IN /\ (response.failed \/ response.Status # 200) =>
               /\ got.err \notin {"", "token not found"}
               /\ got.token = ""
          /\ (~response.failed /\ response.Status = 200 /\ ~HasToken(response)) =>
               /\ got.err = "token not found"
               /\ got.token = ""
          /\ HasToken(response) =>
               /\ got.err = ""
               /\ got.token = response.bearer
          /\ got.token # "" => (got.err = "" /\ HasToken(response))
          /\ got.err = "" => got.token # ""

C30_Witness ==
  /\ pc = "done"
  /\ Len(obs.gets) = 1
  /\ ~obs.response[1].failed
  /\ obs.response[1].Status = 200
  /\ obs.response[1].found
  /\ obs.response[1].bearer = ""
  /\ obs.ret[1].err = "token not found"

(***************************************************************************)
(* The token of the fetcher across sagas (SpecSerial, SpecShared).         *)
(***************************************************************************)
\* C31: with the sagas handled one at a time, every page request of a saga
\* carries the token that saga extracted; no request is sent before the
\* saga's SetToken, and from SetToken to the return of Handle the fetcher
\* holds that token.
C31_SerialSagasOwnToken ==
  /\ \A r \in requests :
       /\ r.token = obs.saga[r.saga].tok
       /\ r.token = SagaToken(r.saga)
  /\ \A s \in Sagas :
       /\ obs.saga[s].pc = "fetch" =>
            token = [ptr |-> obs.saga[s].tok, len |-> obs.saga[s].tok]
       /\ obs.saga[s].pc \in {"idle", "token", "set", "set2"} =>
            obs.saga[s].sent = 0

C31_Witness ==
  /\ \A s \in Sagas : obs.saga[s].pc = "done"
  /\ \E r \in requests : r.saga = 1 /\ r.token = "tokA" /\ ~r.raced
  /\ \E r \in requests : r.saga = 2 /\ r.token = "tokB" /\ r.raced

\* C40: with two Handle calls running concurrently on the fetcher, a page
\* request carries what the fetcher holds when the request is prepared,
\* whichever saga put it there: its own token, or, once the other saga has
\* called SetToken, the token of the other saga or a torn string.  The
\* witness is a request of one saga sent with the token the other saga
\* extracted.
C40_SharedTokenRace ==
  \A r \in requests :
    /\ r.token = (IF r.held.ptr = r.held.len THEN r.held.ptr ELSE "torn")
    /\ r.token \in {SagaToken(s) : s \in Sagas} \cup {"torn"}
    /\ r.token # obs.saga[r.saga].tok => r.raced

C40_Witness ==
  \E r \in requests :
    /\ r.saga = 1
    /\ obs.saga[1].tok = "tokA"
    /\ obs.saga[2].tok = "tokB"
    /\ r.token = "tokB"
    /\ obs.saga[1].pc = "fetch"

(***************************************************************************)
(* logger.Log (SpecLog).                                                   *)
(***************************************************************************)
\* the attributes Log put in front of the args of the caller
CorrelationPart == SubSeq(obs.attrs, 1, Len(obs.attrs) - Len(obs.args))

\* the positions of the keys in a flat list of keys and values
KeyPositions(attrs) == { i \in DOMAIN attrs : i % 2 = 1 }

\* C32: the attributes of a log entry are, first, one key and value for
\* each correlation id that is stored and not empty in the context, with
\* the stored value, and none for an id that is absent or empty; then the
\* args of the caller, unchanged.
C32_LogCorrelationIDs ==
  pc = "logged" =>
    /\ Len(obs.attrs) >= Len(obs.args)
    /\ SubSeq(obs.attrs, Len(obs.attrs) - Len(obs.args) + 1, Len(obs.attrs)) = obs.args
    /\ Len(CorrelationPart) % 2 = 0
    /\ \A i \in DOMAIN CorrelationKeys :
         LET key == CorrelationKeys[i]
             at == { p \in KeyPositions(CorrelationPart) : CorrelationPart[p] = key }
         IN IF obs.ctx[key].set /\ obs.ctx[key].v # ""
              THEN /\ Cardinality(at) = 1
                   /\ \A p \in at : CorrelationPart[p + 1] = obs.ctx[key].v
              ELSE at = {}
    /\ \A p \in KeyPositions(CorrelationPart) :
         \E i \in DOMAIN CorrelationKeys : CorrelationPart[p] = CorrelationKeys[i]

C32_Witness ==
  /\ pc = "logged"
  /\ obs.ctx["trace_id"] = [set |-> TRUE, v |-> "id-1"]
  /\ obs.ctx["app_id"] = [set |-> TRUE, v |-> ""]
  /\ ~obs.ctx["message_id"].set
  /\ ~obs.ctx["review_id"].set
  /\ obs.ctx["saga_id"] = [set |-> TRUE, v |-> "id-1"]
  /\ obs.args = << "key", "value" >>
  /\ obs.attrs = << "trace_id", "id-1", "saga_id", "id-1", "key", "value" >>

(***************************************************************************)
(* How the observed call ended, told from what it received (SpecFetch).    *)
(***************************************************************************)
\* the last received page ended the call: the limit was reached, the page
\* had no next cursor, it added no review under a date filter, or its next
\* link has no offset
EndedByPage ==
  /\ respErr = << >>
  /\ pagesSeen # << >>
  /\ LET last == pagesSeen[Len(pagesSeen)] IN
       \/ args.MaxLimit > 0 /\ Len(Kept(pagesSeen)) >= args.MaxLimit
       \/ last.Next = ""
       \/ ~args.After.nil /\ QualifyingOf(last) = << >>
       \/ last.Next = "/v1/catalog/reviews?l=en-GB&cursor=abc"

\* the last request was answered by an error without rate-limit signal
EndedByPageError == respErr # << >> /\ ~isRateLimit(respErr)

\* the last request was answered by a rate-limit signal
EndedByExhaustion == respErr # << >> /\ isRateLimit(respErr)

\* C33: a returned call returned the accumulated list, and its error is
\* nil exactly when a page ended it (limit, no next cursor, no new review
\* under a date filter, next link without offset); otherwise it is the
\* error of the page request, the exhaustion of the retries after the 6th
\* rate-limit answer in a row, or the cancellation.
C33_ErrorIffAborted ==
  Returned =>
    /\ Len(fetchLog) = 1
    /\ fetchLog[1].reviews = Accumulated
    /\ fetchLog[1].err = ~EndedByPage
    /\ fetchLog[1].err = (retErr # << >>)
    /\ EndedByPageError => retErr = respErr
    /\ EndedByExhaustion =>
         /\ retErr = << "maximum retry attempts exceeded:" >> \o respErr
         /\ Len(sleeps) = maxRetries
    /\ (~EndedByPage /\ respErr = << >>) =>
         /\ retErr = << "context canceled" >>
         /\ cancelled

C33_Witness ==
  /\ Returned
  /\ EndedByExhaustion
  /\ fetchLog[1].err
  /\ Len(fetchLog[1].reviews) = 1
  /\ Len(pagesSeen) = 1
  /\ ~cancelled

\* C34: every SaveRawReview call is for a review of a list that the fetch
\* of its country returned without error; for a country whose fetch
\* returned an error, with whatever list, no review is saved and none is
\* counted: the total is that of the countries before it and the rows in
\* the store are theirs.
C34_NoSaveBeforeFetchOK ==
  /\ \A i \in DOMAIN saveCalls :
       /\ FetchedOK(saveCalls[i].ci)
       /\ \E j \in DOMAIN fetchLog[saveCalls[i].ci].reviews :
            fetchLog[saveCalls[i].ci].reviews[j].ID = saveCalls[i].row.id
  /\ \A k \in DOMAIN fetchLog :
       fetchLog[k].err =>
         /\ SavesOf(k) = << >>
         /\ totalCount = SumFetched(SubSeq(fetchLog, 1, k - 1))
         /\ \A r \in store :
              \E j \in 1..(k - 1) : r.country = fetchLog[j].country

C34_Witness ==
  /\ pc = "done"
  /\ Len(fetchLog) = 1
  /\ fetchLog[1].err
  /\ Len(fetchLog[1].reviews) = 1
  /\ saveCalls = << >>
  /\ totalCount = 0
  /\ store = {}

C36_SaveCallsEqualCount ==
  /\ \A k \in DOMAIN fetchLog :
       \A i \in DOMAIN fetchLog[k].reviews :
         ParseTimestamp(fetchLog[k].reviews[i].Attributes.Date).ok
  /\ pc = "save" => Len(saveCalls) = totalCount + (si - 1)
  /\ pc \in {"country", "publish"} => Len(saveCalls) = totalCount
  /\ result = "ok" =>
       /\ Len(published) = 1
       /\ Len(saveCalls) = published[1].envelope.Payload.Count
       /\ Len(saveCalls) = totalCount

C36_Witness ==
  /\ result = "ok"
  /\ Len(evt.Countries) = MaxCountries
  /\ Len(saveCalls) = 2
  /\ published[1].envelope.Payload.Count = 2
  /\ SavesOf(1) # << >>
  /\ SavesOf(2) # << >>
  /\ \E i \in DOMAIN saveCalls : ~saveCalls[i].ok

\* a page is received in this step
PageArrives == Len(pagesSeen') = Len(pagesSeen) + 1

\* C37: while the call runs, the cursor offset changes only in a step that
\* receives a page whose next link carries an offset, and a received page
\* after which the loop goes on sets it to exactly that offset; a received
\* page whose next link is not empty and carries no offset makes the call
\* return the accumulated reviews with a nil error; a returned call sends no
\* further request.
C37_CursorFrame ==
  [][ /\ (Running' /\ currentOffset' # currentOffset) =>
           /\ pc = "fetch"
           /\ PageArrives
           /\ respErr' = << >>
           /\ pagesSeen'[Len(pagesSeen')].Next = "/v1/catalog/reviews?l=en-GB&offset=20"
           /\ currentOffset' = 20
      /\ (PageArrives /\ Running') =>
           /\ pagesSeen'[Len(pagesSeen')].offset = currentOffset
           /\ currentOffset' = parseOffsetFromURL(pagesSeen'[Len(pagesSeen')].Next).v
           /\ currentOffset' = CursorAfter(pagesSeen)'
      /\ (~PageArrives /\ Running') => currentOffset' = currentOffset
      /\ ( /\ PageArrives
           /\ pagesSeen'[Len(pagesSeen')].Next = "/v1/catalog/reviews?l=en-GB&cursor=abc" ) =>
           /\ Returns
           /\ ~Running'
           /\ ~fetchLog'[1].err
           /\ retErr' = << >>
           /\ fetchLog'[1].reviews = Accumulated'
      /\ Returned => requests' = requests
    ]_vars

C37_Witness ==
  /\ Returned
  /\ ~fetchLog[1].err
  /\ args.MaxLimit = 0
  /\ Len(pagesSeen) = 2
  /\ pagesSeen[2].offset = 20
  /\ pagesSeen[2].Next = "/v1/catalog/reviews?l=en-GB&cursor=abc"
  /\ QualifyingOf(pagesSeen[2]) # << >>
  /\ Len(fetchLog[1].reviews) = 2
  /\ Cardinality(requests) = 2

\* the calls of SaveRawReview made for one id by two different countries of
\* the request, in the order of the calls
TwoCountryCalls ==
  { p \in (DOMAIN saveCalls) \X (DOMAIN saveCalls) :
      /\ p[1] < p[2]
      /\ saveCalls[p[1]].row.id = saveCalls[p[2]].row.id
      /\ saveCalls[p[1]].row.country # saveCalls[p[2]].row.country }

\* C38 as stated: an id returned for two countries is stored only with the
\* country processed first.
C38_FirstCountryWins ==
  \A p \in TwoCountryCalls :
    \A r \in store :
      r.id = saveCalls[p[1]].row.id => r.country = saveCalls[p[1]].row.country

\* C38: no step changes or removes a row of the store, and a step adds at
\* most one row, whose id was not there; so when an id was submitted by two
\* different countries, its row is the one of the first call for it that
\* succeeded: that of the earlier country unless its call failed.
C38_FirstStoredWins ==
  [][ /\ \A r \in store : r \in store'
      /\ Cardinality(store' \ store) <= 1
      /\ \A r \in store' \ store : ~\E q \in store : q.id = r.id
      /\ \A p \in TwoCountryCalls' :
           \A r \in store' :
             r.id = saveCalls'[p[1]].row.id =>
               \E i \in FirstSaves' :
                 /\ saveCalls'[i].row = r
                 /\ i > p[1] => ~saveCalls'[p[1]].ok
                 /\ i > p[2] => ~saveCalls'[p[2]].ok
    ]_vars

C38_Witness ==
  /\ pc = "done"
  /\ \E p \in TwoCountryCalls :
       /\ saveCalls[p[1]].ok
       /\ saveCalls[p[2]].ok
       /\ saveCalls[p[1]].row \in store
       /\ saveCalls[p[1]].row.country = evt.Countries[1]
       /\ saveCalls[p[2]].row.country = evt.Countries[2]
       /\ saveCalls[p[2]].row \notin store
  /\ Cardinality(store) = 1

\* the options have what the options of handleReviewsByCountry always have:
\* a date filter and a positive maximum
OrchestratorOptions == ~args.After.nil /\ args.MaxLimit > 0

\* C39: for a call with a date filter and a positive MaxLimit, every
\* received page but the last one added at least one review to the list, and
\* so did the last one while the call goes on; hence the received pages are
\* at most MaxLimit, fewer while the call goes on, and at most
\* maxRetries+1 = 6 requests are sent between two received pages, also
\* when every page reports the same next cursor.
C39_BoundedPages ==
  OrchestratorOptions =>
    /\ \A k \in 1..(Len(pagesSeen) - 1) : QualifyingOf(pagesSeen[k]) # << >>
    /\ Len(pagesSeen) <= args.MaxLimit
    /\ Len(pagesSeen) <= Len(Kept(pagesSeen)) + 1
    /\ (Running /\ pagesSeen # << >>) =>
         /\ QualifyingOf(pagesSeen[Len(pagesSeen)]) # << >>
         /\ Len(pagesSeen) <= fetchedCount
         /\ fetchedCount < args.MaxLimit
    /\ attempts <= 6
    /\ attempts <= maxRetries + 1
    /\ Len(sleeps) <= maxRetries

C39_Witness ==
  /\ OrchestratorOptions
  /\ args.MaxLimit = 2
  /\ Returned
  /\ ~fetchLog[1].err
  /\ Len(pagesSeen) = 2
  /\ pagesSeen[1].Next = "/v1/catalog/reviews?l=en-GB&offset=20"
  /\ pagesSeen[2].Next = "/v1/catalog/reviews?l=en-GB&offset=20"
  /\ pagesSeen[2].offset = 20
  /\ Len(fetchLog[1].reviews) = 2
  /\ incidents >= 1

====
